---------------------------- MODULE Spec2Model ----------------------------
(***************************************************************************)
(* ParaModel series-pair analysis: the segment geometry kernel             *)
(* (LineIntersectionDetection), the pair relationship aggregator           *)
(* (BasicSeriesPairMetadataAnalyzer), the enhanced analyzer, the spatial   *)
(* cluster engine and the tracking-group merge pass.                       *)
(*                                                                         *)
(* Numbers.  The program computes in IEEE doubles; the model computes in   *)
(* exact integers.  Record x- and y-values are integers.  A crosspoint,    *)
(* which the program rounds to three decimals (addPoints, toFixed(3)), is  *)
(* held in thousandths (Milli).  Slopes, fractions and percentages are     *)
(* rationals [n, d]; d = 0 stands for NaN (0 * Infinity).  An angle, which *)
(* the program obtains from atan, is held as its tangent plus a flag for   *)
(* the supplement; two slope angles are compared through the tangent of    *)
(* their difference.                                                       *)
(***************************************************************************)
EXTENDS Integers, Sequences, FiniteSets, TLC

VARIABLES
    kind,             \* which analyzer class is constructed: "basic" | "ai"
    seriesArray,      \* constructor argument: the list of Lines
    oracle,           \* results of the external trend-split library for this run
    pc,               \* "new" | "ok" (the call returned) | "err" (it threw)
    err,              \* code of the Err thrown, or NoErr
    intersections,    \* this.intersections
    overlaps,         \* this.overlaps
    parallels,        \* this.parallels
    pairs,            \* this.pairs
    trackingGroups,   \* this.trackingGroups
    trackingZones,    \* this.trackingZones
    clusters,         \* this.clusters
    clusterOutliers,  \* this.clusterOutliers
    ret,              \* what the last accessor call returned
    segArgs,          \* arguments of a direct checkIntersection call
    segRes,           \* its result (a SegPairProperties record or a thrown Err)
    groups,           \* argument of a direct mergeGroups call
    merged            \* its result

vars == <<kind, seriesArray, oracle, pc, err, intersections, overlaps, parallels,
          pairs, trackingGroups, trackingZones, clusters, clusterOutliers, ret,
          segArgs, segRes, groups, merged>>

(***************************************************************************)
(* Bounds of the model.                                                    *)
(***************************************************************************)
MaxLen == 5        \* longest line of a compared pair (records x = 0..4)
MaxFullLen == 3    \* longest line compared with every line of its length
MaxSeries == 3     \* longest series list handed to a constructor
MaxGroups == 3     \* longest group list handed to mergeGroups or to getZones
MaxX == 4          \* largest interval boundary of a tracking group
MaxSegX == 2       \* largest x of an end point of a directly classified segment
MaxNormGroups == 3 \* longest group list handed to normalizeGroups
MaxNormX == 3      \* largest interval boundary of a group handed to normalizeGroups
MaxClusterSeries == 4   \* longest series list handed to SpatialClusters (but for the five-series chart)
MaxPairs == 4           \* longest list of tracking pairs handed to createGroupsFromPairs
MaxModelSeries == 2     \* most series of a data model
MaxModelLen == 2        \* most datapoints of a series of a data model

YValues == {0, 5, 10}      \* y-values of the points of a compared pair
ListLens == {2, 3}         \* lengths of the lines of a series list

(***************************************************************************)
(* Program constants.                                                      *)
(***************************************************************************)
numPointsNotEqual == 0
segStartNotBeforeEnd == 1
seriesWithoutKey == 2
NoErr == numPointsNotEqual - 1   \* no Err was thrown
Milli == 1000              \* toFixed(3): three decimals
PARALLEL_THRESHOLD == 5    \* degrees
TanThresholdN == 8749      \* tan(PARALLEL_THRESHOLD degrees) = 0.08749 = N / D
TanThresholdD == 100000
MIN_POINTS == 2
NOISE == -1

Undefined == "undefined"   \* a missing key, an absent array element
Null == "null"             \* null where a series key is expected
NullV == [null |-> TRUE]   \* null where an object is expected
NaN == [n |-> 0, d |-> 0]

\* The only element of a singleton set.  {F(x) : x \in {e}} evaluates e once,
\* however often F reads x.
The(S) == CHOOSE r \in S : TRUE

Abs(v) == IF v < 0 THEN -v ELSE v
Min2(a, b) == IF a < b THEN a ELSE b
Max2(a, b) == IF a > b THEN a ELSE b
IsNaN(q) == q.d = 0

(***************************************************************************)
(* Segment geometry kernel                                                 *)
(***************************************************************************)
\* i is the program's 0-based segment index; TLA+ sequences are 1-based.
segAt(series, i) == [start |-> series.points[i + 1], end |-> series.points[i + 2]]

subtractPoints(p1, p2) == [x |-> p1.x - p2.x, y |-> p1.y - p2.y]

crossProduct(p1, p2) == p1.x * p2.y - p1.y * p2.x

\* Number(v.toFixed(3)) of the rational n/d (d > 0), in thousandths, half up.
ToFixed3(n, d) == (2 * Milli * n + d) \div (2 * d)

\* point2 is a record point (integers); point1 is diff1 scaled by t = tn/td.
addPoints(diff, tn, td, point2) ==
    IF td < 0
    THEN [x |-> ToFixed3(-(diff.x * tn) - point2.x * td, -td),
          y |-> ToFixed3(-(diff.y * tn) - point2.y * td, -td)]
    ELSE [x |-> ToFixed3(diff.x * tn + point2.x * td, td),
          y |-> ToFixed3(diff.y * tn + point2.y * td, td)]

\* A record point as a crosspoint (thousandths).
AtPoint(p) == [x |-> p.x * Milli, y |-> p.y * Milli]

\* The slope as a rational over yScale's denominator; "throw" for the Err.
findSlopeMutStrict(seg, yScale) ==
    IF seg.end.x < seg.start.x THEN [throw |-> segStartNotBeforeEnd]
    ELSE LET rise == seg.end.y - seg.start.y IN
         IF yScale.d = 0 THEN NaN
         ELSE IF rise * yScale.n = 0 THEN [n |-> 0, d |-> yScale.d]
         ELSE [n |-> rise * yScale.n, d |-> yScale.d]

findSlope(seg, yScale) ==
    IF seg.end.x <= seg.start.x THEN [throw |-> segStartNotBeforeEnd]
    ELSE LET rise == seg.end.y - seg.start.y IN
         IF yScale.d = 0
         THEN NaN    \* rise * Infinity; the model's y-values make rise 0 here
         ELSE IF rise * yScale.n = 0 THEN [n |-> 0, d |-> yScale.d]
         ELSE [n |-> rise * yScale.n, d |-> yScale.d]

\* 1 + m1*m2 over d1*d2, as the numerator of that fraction.
OnePlusProduct(m1, m2) == m1.d * m2.d + m1.n * m2.n

\* |atan(m1) - atan(m2)| < PARALLEL_THRESHOLD degrees, both angles in (-90, 90):
\* the difference is below 90 degrees iff 1 + m1*m2 > 0, and then its tangent
\* is |m1 - m2| / (1 + m1*m2).
AngleDiffBelowThreshold(m1, m2) ==
    /\ OnePlusProduct(m1, m2) > 0
    /\ Abs(m1.n * m2.d - m2.n * m1.d) * TanThresholdD
          < TanThresholdN * OnePlusProduct(m1, m2)

getParallelApproximation(slope1, slope2) ==
    IF IsNaN(slope1) \/ IsNaN(slope2) THEN "Disjoint"
    ELSE IF slope1.n * slope2.d = slope2.n * slope1.d THEN "Parallel"
    ELSE IF AngleDiffBelowThreshold(slope1, slope2) THEN "FunctionallyParallel"
    ELSE "Disjoint"

getSlopeClass(slope) ==
    IF slope.n > 0 THEN "positive" ELSE IF slope.n < 0 THEN "negative" ELSE "zero"

oppositeSlopes(c1, c2) ==
    \/ c1 = "positive" /\ c2 = "negative"
    \/ c2 = "positive" /\ c1 = "negative"

\* tan of the acute angle: |(m2 - m1) / (1 + m1*m2)|.
findLineIntersectionAngle(m1, m2) ==
    [tn |-> Abs(m2.n * m1.d - m1.n * m2.d), td |-> Abs(OnePlusProduct(m1, m2))]

\* posSlope > -1/negSlope  iff  1 + posSlope*negSlope < 0.
findAngle(slope1, slope2) ==
    LET acute == findLineIntersectionAngle(slope1, slope2) IN
    [tn |-> acute.tn, td |-> acute.td,
     supplement |-> /\ oppositeSlopes(getSlopeClass(slope1), getSlopeClass(slope2))
                    /\ OnePlusProduct(slope1, slope2) < 0]

NoIntersection == [kind |-> "None"]
OverlapIntersection == [kind |-> "Overlap"]

\* Mutates segPairProps in the program; returns the mutated record here.
calculateLineIntersectionPoints(seg1, seg2, segPairProps) ==
    LET diff1 == subtractPoints(seg1.end, seg1.start)
        diff2 == subtractPoints(seg2.end, seg2.start)
        uNumerator == crossProduct(subtractPoints(seg2.start, seg1.start), diff1)
        denominator == crossProduct(diff1, diff2)
        \* t_scalar is computed from diff1 as well, so t_scalar = u_scalar
        tNumerator == crossProduct(subtractPoints(seg2.start, seg1.start), diff1)
        InUnit(n, d) == IF d > 0 THEN n >= 0 /\ n <= d
                        ELSE IF d < 0 THEN n <= 0 /\ n >= d
                        ELSE FALSE    \* n/0 is NaN or +-Infinity
    IN  IF denominator = 0 /\ uNumerator # 0
        THEN [segPairProps EXCEPT !.relationship = "Parallel"]
        ELSE IF InUnit(tNumerator, denominator) /\ InUnit(uNumerator, denominator)
        THEN [segPairProps EXCEPT
                 !.relationship = "Intersection",
                 !.intersection =
                     [kind |-> "Point",
                      crosspoint |-> addPoints(diff1, tNumerator, denominator, seg1.start),
                      angle |-> findAngle(segPairProps.slopes.a, segPairProps.slopes.b),
                      atRecord |-> FALSE]]
        ELSE segPairProps    \* getParallelApproximation's result is dropped

checkIntersectionMutSlopesOnly(seg1, seg2, yScale, i) ==
    LET slope1 == findSlope(seg1, yScale)
        slope2 == findSlope(seg2, yScale)
    IN  IF "throw" \in DOMAIN slope1 THEN slope1
        ELSE IF "throw" \in DOMAIN slope2 THEN slope2
        ELSE [i |-> i, segs |-> <<seg1, seg2>>,
              relationship |-> getParallelApproximation(slope1, slope2),
              slopes |-> [a |-> slope1, b |-> slope2],
              intersection |-> NoIntersection]

checkIntersection(seg1, seg2, yScale, i) ==
    LET slope1 == findSlope(seg1, yScale)
        slope2 == findSlope(seg2, yScale)
    IN  IF "throw" \in DOMAIN slope1 THEN slope1
        ELSE IF "throw" \in DOMAIN slope2 THEN slope2
        ELSE
        LET segPairProps == [i |-> i, segs |-> <<seg1, seg2>>,
                             relationship |-> "Disjoint",
                             slopes |-> [a |-> slope1, b |-> slope2],
                             intersection |-> NoIntersection]
        IN  IF \/ Max2(seg1.start.y, seg1.end.y) < Min2(seg2.start.y, seg2.end.y)
               \/ Min2(seg1.start.y, seg1.end.y) > Max2(seg2.start.y, seg2.end.y)
            THEN [segPairProps EXCEPT
                     !.relationship = getParallelApproximation(slope1, slope2)]
            ELSE IF seg1.start.y = seg2.start.y \/ seg1.end.y = seg2.end.y
            THEN IF seg1.end.y # seg2.end.y \/ seg1.start.y # seg2.start.y
                 THEN [segPairProps EXCEPT
                          !.relationship = "Intersection",
                          !.intersection =
                              [kind |-> "Point",
                               crosspoint |-> IF seg1.end.y # seg2.end.y
                                              THEN AtPoint(seg1.start)
                                              ELSE AtPoint(seg1.end),
                               angle |-> findAngle(slope1, slope2),
                               atRecord |-> TRUE]]
                 ELSE [segPairProps EXCEPT !.relationship = "Overlap",
                                           !.intersection = OverlapIntersection]
            ELSE calculateLineIntersectionPoints(seg1, seg2, segPairProps)

(***************************************************************************)
(* LineIntersectionDetection                                               *)
(***************************************************************************)
RECURSIVE SumSeq(_)
SumSeq(s) == IF s = <<>> THEN 0 ELSE Head(s) + SumSeq(Tail(s))

getIntersectionsMutOverlapsOnly(allSegPairProps) ==
    SelectSeq(allSegPairProps, LAMBDA props : props.relationship = "Overlap")

getIntersections(allSegPairProps) ==
    SelectSeq(allSegPairProps, LAMBDA props : props.intersection.kind # "None")

getParallelSegPairs(allSegPairProps) ==
    SelectSeq(allSegPairProps,
              LAMBDA props : props.relationship \in {"Parallel", "FunctionallyParallel"})

\* Time on top that one segment pair adds to series 1, in thousandths of x.
TimeOnTopOf(props, interval) ==
    LET segs == props.segs IN
    IF props.relationship = "Intersection"
    THEN LET isect == props.intersection IN
         IF isect.crosspoint.x = segs[1].start.x * Milli
         THEN IF segs[1].end.y > segs[2].end.y THEN interval ELSE 0
         ELSE IF isect.crosspoint.x = segs[1].end.x * Milli
         THEN IF segs[1].start.y > segs[2].start.y THEN interval ELSE 0
         ELSE IF segs[1].start.y > segs[2].start.y
         THEN isect.crosspoint.x - segs[1].start.x * Milli
         ELSE segs[1].end.x * Milli - isect.crosspoint.x
    ELSE IF props.relationship # "Overlap"
    THEN IF segs[1].start.y > segs[2].start.y THEN interval ELSE 0
    ELSE 0

\* series1TimeOnTop / width compared with 0.5, for width > 0.
DominantOf(top, width) ==
    IF 2 * top > width THEN 1 ELSE IF 2 * top < width THEN 2 ELSE -1

findDominant(series1, allSegPairProps) ==
    LET points == series1.points
        interval == (points[2].x - points[1].x) * Milli
        series1TimeOnTop ==
            SumSeq([k \in 1..Len(allSegPairProps) |->
                        TimeOnTopOf(allSegPairProps[k], interval)])
        width == (points[Len(points)].x - points[1].x) * Milli
        dominant == DominantOf(series1TimeOnTop, width)
    IN  [dominant |-> dominant,
         timeOnTop |-> IF dominant = 1 THEN [n |-> series1TimeOnTop, d |-> width]
                       ELSE [n |-> width - series1TimeOnTop, d |-> width]]

\* The constructor: a record of the object's fields, or [throw |-> code].
LineIntersectionDetection(series1, series2, yScale) ==
    IF Len(series1.points) # Len(series2.points)
    THEN [throw |-> numPointsNotEqual]
    ELSE
    LET n == Len(series1.points)
        allSegPairProps ==
            [k \in 1..(n - 1) |->
                checkIntersection(segAt(series1, k - 1), segAt(series2, k - 1),
                                  yScale, k - 1)]
    IN  IF \E k \in 1..(n - 1) : "throw" \in DOMAIN allSegPairProps[k]
        THEN [throw |-> segStartNotBeforeEnd]
        ELSE LET dom == findDominant(series1, allSegPairProps) IN
             [allSegPairProps |-> allSegPairProps,
              intersectingSegPairs |-> getIntersections(allSegPairProps),
              parallelSegPairs |-> getParallelSegPairs(allSegPairProps),
              dominant |-> dom.dominant,
              timeOnTop |-> dom.timeOnTop,
              averageGap |->
                  [n |-> SumSeq([k \in 1..n |->
                             Abs(series1.points[k].y - series2.points[k].y)]),
                   d |-> n]]

(***************************************************************************)
(* BasicSeriesPairMetadataAnalyzer: helpers                                *)
(***************************************************************************)
\* series is the pair of keys <<seriesA.key, seriesB.key>>; side is "start" | "end".
getTopIndex(segs, side) ==
    LET yValueA == IF side = "start" THEN segs[1].start.y ELSE segs[1].end.y
        yValueB == IF side = "start" THEN segs[2].start.y ELSE segs[2].end.y
    IN  IF yValueA > yValueB THEN 0 ELSE IF yValueA < yValueB THEN 1 ELSE -1

\* seriesNames[idx] of a two-element array; -1 stands for null (no top).
NameAt(seriesNames, idx) == IF idx \in {0, 1} THEN seriesNames[idx + 1] ELSE Undefined

getTop(segs, seriesName, side) ==
    LET topIndex == getTopIndex(segs, side) IN
    IF topIndex = -1 THEN Null ELSE seriesName[topIndex + 1]

\* An object literal {[k1]: v1, [k2]: v2}: the later entry wins on equal keys.
Obj2(k1, v1, k2, v2) == (k2 :> v2) @@ (k1 :> v1)

generateAngleDetails(intersectionDetails, series, side) ==
    [top |-> getTop(intersectionDetails.segs, series, side),
     angle |-> intersectionDetails.intersection.angle,
     slope |-> Obj2(series[1], intersectionDetails.slopes.a,
                    series[2], intersectionDetails.slopes.b)]

generateAngleMetadata(angleDetails, series) ==
    IF angleDetails = NullV THEN NullV
    ELSE Obj2(series[1], (series[2] :> angleDetails),
              series[2], (series[1] :> angleDetails))

blankOverlap(series) ==
    [datapoints |-> <<>>, series |-> series,
     incomingAngle |-> NullV, outgoingAngle |-> NullV]

blankParallel(series) ==
    [records |-> <<>>, series |-> series,
     incomingDirection |-> Null, outgoingDirection |-> Null, kind |-> "perfect"]

determineDirection(props, side) ==
    LET startDist == Abs(props.segs[1].start.y - props.segs[2].start.y)
        endDist == Abs(props.segs[1].end.y - props.segs[2].end.y)
        closeDist == IF side = "start" THEN endDist ELSE startDist
        farDist == IF side = "start" THEN startDist ELSE endDist
    IN  IF closeDist < farDist THEN "converge" ELSE "diverge"

\* +(topIdx === 0)
BottomIdx(topIdx) == IF topIdx = 0 THEN 1 ELSE 0

getTransversal(segs, seriesNames, edge) ==
    LET topIdx == IF edge # "middle"
                  THEN getTopIndex(segs, IF edge = "start" THEN "end" ELSE "start")
                  ELSE getTopIndex(segs, "start")
        tkind == IF edge # "middle" THEN "edge"
                 ELSE IF topIdx = getTopIndex(segs, "end") THEN "touch" ELSE "cross"
        bottomIdx == BottomIdx(topIdx)
    IN  IF tkind = "cross"
        THEN [kind |-> tkind, topToBottom |-> NameAt(seriesNames, topIdx),
              bottomToTop |-> NameAt(seriesNames, bottomIdx)]
        ELSE [kind |-> tkind, top |-> NameAt(seriesNames, topIdx),
              bottom |-> NameAt(seriesNames, bottomIdx)]

getTransversalOnRecord(leftSegs, rightSegs, seriesNames) ==
    LET leftTopIndex == getTopIndex(leftSegs, "start")
        rightTopIndex == getTopIndex(rightSegs, "end")
    IN  IF leftTopIndex = rightTopIndex
        THEN [kind |-> "touch", top |-> NameAt(seriesNames, leftTopIndex),
              bottom |-> NameAt(seriesNames, BottomIdx(leftTopIndex))]
        ELSE [kind |-> "cross", topToBottom |-> NameAt(seriesNames, leftTopIndex),
              bottomToTop |-> NameAt(seriesNames, rightTopIndex)]

\* Number.prototype.toString of an integer x-value.
NumToString(x) == ToString(x)

\* x of a crosspoint held in thousandths that lies on a record.
RecordX(crosspoint) == crosspoint.x \div Milli

(***************************************************************************)
(* BasicSeriesPairMetadataAnalyzer: the three scans of one pair            *)
(***************************************************************************)
MakeIntersection(record, value, series, inAngle, outAngle, transversality) ==
    [record |-> record,
     value |-> value,    \* thousandths of a y-unit
     series |-> series,
     incomingAngle |-> generateAngleMetadata(inAngle, series),
     outgoingAngle |-> generateAngleMetadata(outAngle, series),
     transversality |-> transversality]

NextAfterMiddleRecordMutSkipsOneMore(i) == i + 3

\* The index the loop goes on with after an intersection at a middle
\* record: the i++ of the subcase and the i++ of the loop.
NextAfterMiddleRecord(i) == i + 2

\* The loop "Collect intersections"; i is its 0-based index into
\* intersectionsDetails, acc the list this.intersections.
RECURSIVE CollectIntersections(_, _, _, _, _)
CollectIntersections(intersectionsDetails, i, series, seriesA, acc) ==
    IF i >= Len(intersectionsDetails) THEN acc
    ELSE
    LET intersectionDetails == intersectionsDetails[i + 1]
        Continue(j, a) == CollectIntersections(intersectionsDetails, j, series, seriesA, a)
    IN  IF intersectionDetails.relationship = "Overlap" THEN Continue(i + 1, acc)
        ELSE
        LET isect == intersectionDetails.intersection
            angle == generateAngleDetails(intersectionDetails, series, "start")
            value == isect.crosspoint.y
            segs == intersectionDetails.segs
        IN  IF isect.atRecord
            THEN IF /\ i < Len(intersectionsDetails) - 1
                    /\ intersectionsDetails[i + 2].relationship = "Overlap"
                 THEN Continue(i + 1, acc)
                 ELSE IF i > 0 /\ intersectionsDetails[i].relationship = "Overlap"
                 THEN Continue(i + 1, acc)
                 ELSE
                 LET record == [label |-> NumToString(RecordX(isect.crosspoint)),
                                before |-> Null, after |-> Null]
                 IN  IF isect.crosspoint.x = seriesA.points[1].x * Milli
                     THEN Continue(i + 1, Append(acc,
                              MakeIntersection(record, value, series, NullV, angle,
                                  getTransversal(segs, series, "start"))))
                     ELSE IF isect.crosspoint.x
                                = seriesA.points[Len(seriesA.points)].x * Milli
                     THEN Continue(i + 1, Append(acc,
                              MakeIntersection(record, value, series, angle, NullV,
                                  getTransversal(segs, series, "end"))))
                     ELSE
                     \* i++ : the next details entry is merged into this one
                     LET nextIntersectionDetails == intersectionsDetails[i + 2]
                         outAngle ==
                             [top |-> getTop(nextIntersectionDetails.segs, series, "end"),
                              angle |-> nextIntersectionDetails.intersection.angle,
                              slope |-> Obj2(series[1], nextIntersectionDetails.slopes.a,
                                             series[2], nextIntersectionDetails.slopes.b)]
                     IN  Continue(NextAfterMiddleRecord(i), Append(acc,
                              MakeIntersection(record, value, series, angle, outAngle,
                                  getTransversalOnRecord(segs,
                                      nextIntersectionDetails.segs, series))))
            ELSE
            \* between records: inAngle and outAngle are the same object, whose
            \* top is overwritten with the top at the segment's end
            LET record == [label |-> Null,
                           before |-> NumToString(segs[1].start.x),
                           after |-> NumToString(segs[1].end.x)]
                shared == [angle EXCEPT !.top = getTop(segs, series, "end")]
            IN  Continue(i + 1, Append(acc,
                    MakeIntersection(record, value, series, shared, shared,
                        getTransversal(segs, series, "middle"))))

Datapoint(p) == <<NumToString(p.x), p.y>>

\* The loop "Collect overlaps".  st = [cur, live, out]: currentOverlap,
\* liveOverlap and this.overlaps.
RECURSIVE CollectOverlaps(_, _, _, _)
CollectOverlaps(intersectionsDetails, i, series, st) ==
    IF i >= Len(intersectionsDetails)
    THEN IF st.live THEN Append(st.out, st.cur) ELSE st.out
    ELSE
    LET intersectionDetails == intersectionsDetails[i + 1]
        start == intersectionDetails.segs[1].start
        end == intersectionDetails.segs[1].end
        next ==
            IF intersectionDetails.relationship = "Overlap"
            THEN IF ~st.live
                 THEN [st EXCEPT
                          !.cur = [st.cur EXCEPT
                              !.incomingAngle =
                                  IF i = 0 THEN NullV
                                  ELSE generateAngleMetadata(generateAngleDetails(
                                           intersectionsDetails[i], series, "start"), series),
                              !.datapoints = st.cur.datapoints
                                               \o <<Datapoint(start), Datapoint(end)>>],
                          !.live = TRUE]
                 ELSE [st EXCEPT !.cur.datapoints = Append(st.cur.datapoints, Datapoint(end))]
            ELSE IF st.live
                 THEN [cur |-> blankOverlap(series),
                       live |-> FALSE,
                       out |-> Append(st.out,
                                [st.cur EXCEPT !.outgoingAngle =
                                    generateAngleMetadata(generateAngleDetails(
                                        intersectionDetails, series, "end"), series)])]
                 ELSE st
    IN  CollectOverlaps(intersectionsDetails, i + 1, series, next)

\* The loop "Collect Parallels".  st = [cur, live, n, out]: currentParallel,
\* liveParallel, nParallelSegs and this.parallels.
RECURSIVE CollectParallels(_, _, _, _)
CollectParallels(allProps, i, series, st) ==
    IF i >= Len(allProps)
    THEN IF st.live THEN [st EXCEPT !.out = Append(st.out, st.cur)] ELSE st
    ELSE
    LET props == allProps[i + 1]
        start == props.segs[1].start
        end == props.segs[1].end
        next ==
            IF props.relationship \in {"Parallel", "FunctionallyParallel"}
            THEN LET cur1 == IF props.relationship = "FunctionallyParallel"
                             THEN [st.cur EXCEPT !.kind = "functional"]
                             ELSE st.cur
                 IN  IF ~st.live
                     THEN [st EXCEPT
                              !.n = st.n + 1,
                              !.cur = [cur1 EXCEPT
                                  !.incomingDirection =
                                      IF i = 0 THEN Null
                                      ELSE determineDirection(allProps[i], "start"),
                                  !.records = cur1.records
                                      \o <<[label |-> NumToString(start.x)],
                                           [label |-> NumToString(end.x)]>>],
                              !.live = TRUE]
                     ELSE [st EXCEPT
                              !.n = st.n + 1,
                              !.cur = [cur1 EXCEPT !.records =
                                  Append(cur1.records, [label |-> NumToString(end.x)])]]
            ELSE IF st.live
                 THEN [st EXCEPT
                          !.cur = blankParallel(series),
                          !.live = FALSE,
                          !.out = Append(st.out,
                              [st.cur EXCEPT !.outgoingDirection =
                                  IF i = Len(allProps) - 1 THEN Null
                                  ELSE determineDirection(allProps[i + 2], "end")])]
                 ELSE st
    IN  CollectParallels(allProps, i + 1, series, next)

(***************************************************************************)
(* BasicSeriesPairMetadataAnalyzer: constructor and accessors              *)
(***************************************************************************)
EmptyResults ==
    [intersections |-> <<>>, overlaps |-> <<>>, parallels |-> <<>>, pairs |-> <<>>,
     trackingGroups |-> <<>>, trackingZones |-> <<>>, clusters |-> <<>>,
     clusterOutliers |-> <<>>]

\* The results of one pair appended to acc; par is the parallels scan.
PairSummary(interactions, series, seriesA, par, acc) ==
    [acc EXCEPT
        !.intersections =
            CollectIntersections(interactions.intersectingSegPairs, 0, series,
                                 seriesA, acc.intersections),
        !.overlaps =
            CollectOverlaps(interactions.intersectingSegPairs, 0, series,
                [cur |-> blankOverlap(series), live |-> FALSE, out |-> acc.overlaps]),
        !.parallels = par.out,
        !.pairs = Append(acc.pairs,
            [series |-> series,
             dominant |-> IF interactions.dominant = -1 THEN Null
                          ELSE series[interactions.dominant],
             dominantPercent |-> interactions.timeOnTop,
             parallelPercent |-> [n |-> par.n * 100,
                                  d |-> Len(interactions.allSegPairProps)]])]

\* The scans of one pair over the interactions the kernel found.
PairResults(interactions, series, seriesA, acc) ==
    IF "throw" \in DOMAIN interactions THEN interactions
    ELSE The({PairSummary(interactions, series, seriesA, par, acc) :
                 par \in {CollectParallels(interactions.allSegPairProps, 0, series,
                              [cur |-> blankParallel(series), live |-> FALSE,
                               n |-> 0, out |-> acc.parallels])}})

\* The body of the inner loop for one pair, after its keys were checked:
\* acc with the pair's results appended, or [throw |-> code].
AnalyzePair(seriesA, seriesB, yScale, acc) ==
    The({PairResults(interactions, <<seriesA.key, seriesB.key>>, seriesA, acc) :
            interactions \in {LineIntersectionDetection(seriesA, seriesB, yScale)}})

\* The two nested loops over series A and series B (0-based indices).
RECURSIVE PairLoops(_, _, _, _, _)
PairLoopsMutNoBKey(arr, yScale, seriesAIndex, seriesBIndex, acc) ==
    LET nSeries == Len(arr) IN
    IF seriesAIndex >= nSeries - 1 THEN acc
    ELSE IF arr[seriesAIndex + 1].key = Undefined THEN [throw |-> seriesWithoutKey]
    ELSE IF seriesBIndex >= nSeries
    THEN PairLoops(arr, yScale, seriesAIndex + 1, seriesAIndex + 2, acc)
    ELSE The({IF "throw" \in DOMAIN res THEN res
              ELSE PairLoops(arr, yScale, seriesAIndex, seriesBIndex + 1, res) :
                 res \in {AnalyzePair(arr[seriesAIndex + 1], arr[seriesBIndex + 1],
                                      yScale, acc)}})

PairLoops(arr, yScale, seriesAIndex, seriesBIndex, acc) ==
    LET nSeries == Len(arr) IN
    IF seriesAIndex >= nSeries - 1 THEN acc
    ELSE IF arr[seriesAIndex + 1].key = Undefined THEN [throw |-> seriesWithoutKey]
    ELSE IF seriesBIndex >= nSeries
    THEN PairLoops(arr, yScale, seriesAIndex + 1, seriesAIndex + 2, acc)
    ELSE IF arr[seriesBIndex + 1].key = Undefined THEN [throw |-> seriesWithoutKey]
    ELSE The({IF "throw" \in DOMAIN res THEN res
              ELSE PairLoops(arr, yScale, seriesAIndex, seriesBIndex + 1, res) :
                 res \in {AnalyzePair(arr[seriesAIndex + 1], arr[seriesBIndex + 1],
                                      yScale, acc)}})

RECURSIVE MaxOfSeq(_)
MaxOfSeq(s) == IF Len(s) = 1 THEN s[1] ELSE Max2(s[1], MaxOfSeq(Tail(s)))

RECURSIVE MinOfSeq(_)
MinOfSeq(s) == IF Len(s) = 1 THEN s[1] ELSE Min2(s[1], MinOfSeq(Tail(s)))

\* Line.yBounds(): the least and the greatest y of a line.
yBounds(line) ==
    LET ys == [k \in 1..Len(line.points) |-> line.points[k].y]
    IN  [start |-> MinOfSeq(ys), end |-> MaxOfSeq(ys)]

\* yScale = (nLabel / (yMax - yMin)) * (width / height) with yMin = 0 and
\* yMax the greatest y of all series (the defaults).
YScaleOf(arr, screenCoordSysSize) ==
    LET nLabel == Len(arr[1].points) - 1
        yMin == 0
        yMax == MaxOfSeq([k \in 1..Len(arr) |-> yBounds(arr[k]).end])
    IN  [n |-> nLabel * screenCoordSysSize[1],
         d |-> (yMax - yMin) * screenCoordSysSize[2]]

BasicConstructor(arr, screenCoordSysSize) ==
    IF Len(arr) = 1 THEN EmptyResults
    ELSE The({PairLoops(arr, yScale, 0, 1, EmptyResults) :
                 yScale \in {YScaleOf(arr, screenCoordSysSize)}})

(***************************************************************************)
(* Tracking groups (TrackingGroupBuilder)                                  *)
(*                                                                         *)
(* A group is [keys, interval]: keys a set of series keys, interval a      *)
(* record [start, end].  The seriesByKey map, which every group of a run   *)
(* shares, is passed separately where it is read.  A list of groups is a   *)
(* sequence; a group removed from a list is removed by position, as the    *)
(* program removes it by object identity.                                  *)
(***************************************************************************)
setEq(s1, s2) ==
    IF Cardinality(s1) # Cardinality(s2) THEN FALSE
    ELSE \A t \in s1 : t \in s2

mergeIntervals(inter1, inter2) ==
    [start |-> Min2(inter1.start, inter2.start), end |-> Max2(inter1.end, inter2.end)]

intervalEq(inter1, inter2) ==
    inter1.start = inter2.start /\ inter1.end = inter2.end

\* The last comparison reads inter2.end, as the program does.
isIntervalsOverlap(inter1, inter2) ==
    \/ inter1.start >= inter2.start /\ inter1.start <= inter2.end
    \/ inter2.start >= inter1.start /\ inter2.start <= inter2.end

\* The first pair <<i, j>> (1-based, i < j) in loop order that mergeGroups
\* merges, or <<0, 0>>.
FirstMergePair(gs) ==
    LET cand == {p \in (1..Len(gs)) \X (1..Len(gs)) :
                    /\ p[1] < p[2]
                    /\ isIntervalsOverlap(gs[p[1]].interval, gs[p[2]].interval)
                    /\ setEq(gs[p[1]].keys, gs[p[2]].keys)}
    IN  IF cand = {} THEN <<0, 0>>
        ELSE CHOOSE p \in cand :
                 \A q \in cand : p[1] < q[1] \/ (p[1] = q[1] /\ p[2] <= q[2])

\* gs without the elements at positions i and j.
RemoveAt2(gs, i, j) ==
    LET keep == SelectSeq([k \in 1..Len(gs) |-> k], LAMBDA k : k # i /\ k # j)
    IN  [k \in 1..Len(keep) |-> gs[keep[k]]]

\* One turn of the do-while of mergeGroups that merges the pair p: the two
\* groups leave the list and the merged group is put at its end.
\* The merged group has the Set object of gi for its keys.
MergePair(gs, p) ==
    Append(RemoveAt2(gs, p[1], p[2]),
           [gs[p[1]] EXCEPT
               !.interval = mergeIntervals(gs[p[1]].interval, gs[p[2]].interval)])

RECURSIVE mergeGroups(_)
mergeGroups(gs) ==
    IF Len(gs) = 0 THEN gs
    ELSE The({IF p = <<0, 0>> THEN gs
              ELSE The({mergeGroups(next) : next \in {MergePair(gs, p)}}) :
                 p \in {FirstMergePair(gs)}})

Width(g) == g.interval.end - g.interval.start

\* Array.prototype.sort with the comparator sign(bSize - aSize): a stable
\* sort, widest first.  Insertion of g behind every element at least as wide.
RECURSIVE InsertByWidth(_, _)
InsertByWidth(sorted, g) ==
    IF sorted = <<>> THEN <<g>>
    ELSE IF Width(Head(sorted)) >= Width(g)
    THEN <<Head(sorted)>> \o InsertByWidth(Tail(sorted), g)
    ELSE <<g>> \o sorted

RECURSIVE SortByWidth(_)
SortByWidth(gs) ==
    IF gs = <<>> THEN <<>>
    ELSE The({InsertByWidth(sorted, gs[Len(gs)]) :
                 sorted \in {SortByWidth(SubSeq(gs, 1, Len(gs) - 1))}})

\* supplete that adds no key.
suppleteMutAddsNone(this, other) == other.keys

\* this.supplete(other): the keys of other afterwards.
supplete(this, other) ==
    IF this.keys \cap other.keys # {} THEN other.keys \cup this.keys ELSE other.keys

\* The two loops of suppleteGroups over the sorted list, i < j (1-based here).
\* st = [gs, did].
\* The body of the inner loop for the groups at i and j.
SuppleteStep(st, i, j) ==
    LET gs == st.gs
        gi == gs[i]
        gj == gs[j]
    IN  IF gi.interval.start > gj.interval.start \/ gi.interval.end < gj.interval.end
        THEN st
        ELSE IF Width(gi) = Width(gj)
        THEN LET gj1 == [gj EXCEPT !.keys = supplete(gi, gj)]
                 gi1 == [gi EXCEPT !.keys = supplete(gj1, gi)]
             IN  [gs |-> [gs EXCEPT ![i] = gi1, ![j] = gj1],
                  did |-> st.did \/ gj1 # gj \/ gi1 # gi]
        ELSE LET gj1 == [gj EXCEPT !.keys = supplete(gi, gj)]
             IN  [gs |-> [gs EXCEPT ![j] = gj1],
                  did |-> st.did \/ gj1 # gj]

RECURSIVE SuppleteLoop(_, _, _)
SuppleteLoop(st, i, j) ==
    IF i > Len(st.gs) THEN st
    ELSE IF j > Len(st.gs) THEN SuppleteLoop(st, i + 1, i + 2)
    ELSE The({SuppleteLoop(next, i, j + 1) : next \in {SuppleteStep(st, i, j)}})

\* suppleteGroups reporting a suppletion on every pass.
suppleteGroupsMutAlwaysDid(gs) ==
    [gs |-> SuppleteLoop([gs |-> SortByWidth(gs), did |-> FALSE], 1, 2).gs, did |-> TRUE]

\* [gs |-> the list, sorted and suppleted in place, did |-> didSupplete]
suppleteGroups(gs) ==
    The({SuppleteLoop(st, 1, 2) : st \in {[gs |-> SortByWidth(gs), did |-> FALSE]}})

RECURSIVE NormalizeLoop(_)
NormalizeLoop(gs) ==
    The({IF sup.did THEN NormalizeLoop(sup.gs) ELSE sup.gs :
            sup \in {suppleteGroups(mergeGroups(gs))}})

normalizeGroups(gs) == NormalizeLoop(suppleteGroups(gs).gs)

(***************************************************************************)
(* createGroupsFromPairs and getGroups                                     *)
(***************************************************************************)
\* Array.prototype.find: the index of the first true element of a sequence
\* of booleans, or 0.
FirstIndex(tests) ==
    IF \E k \in 1..Len(tests) : tests[k]
    THEN CHOOSE k \in 1..Len(tests) : tests[k] /\ \A m \in 1..(k - 1) : ~tests[m]
    ELSE 0

\* The unique intervals of the tracking pairs, in order of first appearance.
RECURSIVE UniqueIntervals(_, _)
UniqueIntervals(trackingPairs, acc) ==
    IF trackingPairs = <<>> THEN acc
    ELSE LET inter == Head(trackingPairs).interval IN
         UniqueIntervals(Tail(trackingPairs),
             IF FirstIndex([k \in 1..Len(acc) |-> intervalEq(acc[k], inter)]) = 0
             THEN Append(acc, inter) ELSE acc)

MergeSetsMutKeepsBoth(sets, i0, i1) ==
    [sets EXCEPT ![i0] = sets[i0] \cup sets[i1]]

\* "Found separate sets for each line; merge them": set1 is added to set0
\* and filtered out of sets.
MergeSets(sets, i0, i1) ==
    LET grown == [sets EXCEPT ![i0] = sets[i0] \cup sets[i1]]
        keep == SelectSeq([k \in 1..Len(sets) |-> k], LAMBDA k : k # i1)
    IN  [k \in 1..Len(keep) |-> grown[keep[k]]]

\* "Pretend tracking is transitive": fold the key pairs of one interval
\* into a list of key sets.
RECURSIVE TransitiveSets(_, _)
TransitiveSets(keyPairs, sets) ==
    IF keyPairs = <<>> THEN sets
    ELSE
    LET keyPair == Head(keyPairs)
        i0 == FirstIndex([k \in 1..Len(sets) |-> keyPair[1] \in sets[k]])
        i1 == FirstIndex([k \in 1..Len(sets) |-> keyPair[2] \in sets[k]])
        next ==
            IF i0 = 0 /\ i1 = 0 THEN Append(sets, {keyPair[1], keyPair[2]})
            ELSE IF i0 # 0 /\ i1 # 0 /\ i0 # i1
            THEN MergeSets(sets, i0, i1)
            ELSE IF i0 # 0 THEN [sets EXCEPT ![i0] = sets[i0] \cup {keyPair[2]}]
            ELSE [sets EXCEPT ![i1] = sets[i1] \cup {keyPair[1]}]
    IN  TransitiveSets(Tail(keyPairs), next)

RECURSIVE GroupsOfIntervals(_, _, _, _)
GroupsOfIntervals(trackingPairs, intervals, id, acc) ==
    IF id > Len(intervals) THEN acc
    ELSE
    LET mine == SelectSeq(trackingPairs, LAMBDA tp : intervalEq(tp.interval, intervals[id]))
        sets == TransitiveSets([k \in 1..Len(mine) |-> mine[k].keyPair], <<>>)
    IN  GroupsOfIntervals(trackingPairs, intervals, id + 1,
            acc \o [k \in 1..Len(sets) |-> [keys |-> sets[k], interval |-> intervals[id]]])

createGroupsFromPairs(trackingPairs) ==
    GroupsOfIntervals(trackingPairs, UniqueIntervals(trackingPairs, <<>>), 1, <<>>)

Reverse(seq) == [k \in 1..Len(seq) |-> seq[Len(seq) + 1 - k]]

\* getPairs over the positions 1..n: <<1,2>>, <<1,3>>, ..., <<2,3>>, ...
RECURSIVE getPairs(_, _, _)
getPairs(n, i, j) ==
    IF i >= n THEN <<>>
    ELSE IF j > n THEN getPairs(n, i + 1, i + 2)
    ELSE <<<<i, j>>>> \o getPairs(n, i, j + 1)

\* Line.xRange(): the distance from the first to the last x of a line.
xRange(line) == line.points[Len(line.points)].x - line.points[1].x

\* The tracking pairs getGroups keeps of the relative trajectories rts of
\* one key pair: minSize = 0.25 = 1/4, closeness = 0.9 = 9/10.
TrackingPairsOf(keyPair, rts, allSeries) ==
    LET kept == SelectSeq(rts, LAMBDA rt :
                    /\ rt.type = "tracking"
                    /\ 4 * (rt.interval.end - rt.interval.start) >= xRange(allSeries[1])
                    /\ 10 * rt.degree.n >= 9 * rt.degree.d)
    IN  [k \in 1..Len(kept) |-> [keyPair |-> keyPair, interval |-> kept[k].interval]]

RECURSIVE ConcatAll(_)
ConcatAll(seqs) == IF seqs = <<>> THEN <<>> ELSE Head(seqs) \o ConcatAll(Tail(seqs))

\* The tracking pairs getGroups collects over all key pairs; trajectories[k]
\* is what getRelativeTrajectories returns for the k-th pair.
TrackingPairsIn(allSeries, trajectories) ==
    LET keyPairs == getPairs(Len(allSeries), 1, 2)
    IN  ConcatAll([k \in 1..Len(keyPairs) |->
            TrackingPairsOf(<<allSeries[keyPairs[k][1]].key,
                              allSeries[keyPairs[k][2]].key>>,
                            trajectories[k], allSeries)])

getGroups(allSeries, trajectories) ==
    Reverse(normalizeGroups(createGroupsFromPairs(
        TrackingPairsIn(allSeries, trajectories))))

(***************************************************************************)
(* Tracking zones (TrackingZoneBuilder)                                    *)
(***************************************************************************)
\* The decimal digits of a natural number, most significant first.
RECURSIVE Digits(_)
Digits(n) == IF n < 10 THEN <<n>> ELSE Append(Digits(n \div 10), n % 10)

\* String(a) < String(b) by code units: Array.prototype.sort without a
\* comparator.
RECURSIVE SeqLexLess(_, _)
SeqLexLess(a, b) ==
    IF a = <<>> THEN b # <<>>
    ELSE IF b = <<>> THEN FALSE
    ELSE IF Head(a) # Head(b) THEN Head(a) < Head(b)
    ELSE SeqLexLess(Tail(a), Tail(b))

StringLess(a, b) == SeqLexLess(Digits(a), Digits(b))

RECURSIVE SortAsStrings(_)
SortAsStrings(set) ==
    IF set = {} THEN <<>>
    ELSE LET least == CHOOSE a \in set : \A b \in set \ {a} : StringLess(a, b)
         IN  <<least>> \o SortAsStrings(set \ {least})

\* Array.prototype.slice(1, -1)
Slice1MutKeepsBookends(seq) == seq

Slice1(seq) == IF Len(seq) <= 2 THEN <<>> ELSE SubSeq(seq, 2, Len(seq) - 1)

breaksToIntervals(series, breaks) ==
    LET breaksWithEndPoints ==
            <<series.points[1].x>> \o breaks \o <<series.points[Len(series.points)].x>>
    IN  [k \in 1..(Len(breaksWithEndPoints) - 1) |->
            [start |-> breaksWithEndPoints[k], end |-> breaksWithEndPoints[k + 1]]]

\* The groups of a zone have a third field, set: the group of the argument
\* of getZones (1-based) whose Set object their keys are, 0 for a Set
\* object of their own.  What normalizeGroups adds to the keys of a group of
\* a zone it adds to that Set object.
NewGroupMutSharesKeys(tgs, g, interval) ==
    [keys |-> tgs[g].keys, interval |-> interval, set |-> g]

\* new TrackingGroupBuilder(new Set(g.keys), interval, g.seriesByKey)
NewGroup(tgs, g, interval) ==
    [keys |-> tgs[g].keys, interval |-> interval, set |-> 0]

\* The groups of the argument after the groups zgs of a zone were
\* normalized: the keys of a group are what its Set object then holds.
WrittenThrough(tgs, zgs) ==
    [g \in 1..Len(tgs) |->
        IF \E k \in 1..Len(zgs) : zgs[k].set = g
        THEN [tgs[g] EXCEPT !.keys = zgs[CHOOSE k \in 1..Len(zgs) : zgs[k].set = g].keys]
        ELSE tgs[g]]

\* The inner loop of getZones for one interval over the groups g (1-based).
\* st = [zones, created].
RECURSIVE ZoneGroupLoop(_, _, _, _)
ZoneGroupLoop(tgs, interval, g, st) ==
    IF g > Len(tgs) THEN st
    ELSE IF tgs[g].interval.start <= interval.start /\ tgs[g].interval.end >= interval.end
    THEN LET zone == FirstIndex([k \in 1..Len(st.zones) |->
                                        intervalEq(interval, st.zones[k].interval)])
             newG == NewGroup(tgs, g, interval)
         IN  ZoneGroupLoop(tgs, interval, g + 1,
                 IF zone = 0
                 THEN [zones |-> Append(st.zones,
                                     [trackingGroups |-> <<newG>>, interval |-> interval]),
                       created |-> TRUE]
                 ELSE [st EXCEPT !.zones[zone].trackingGroups =
                                     Append(st.zones[zone].trackingGroups, newG)])
    ELSE ZoneGroupLoop(tgs, interval, g + 1, st)

\* The outer loop of getZones over the intervals (1-based): the zones and
\* the groups of the argument at its end.
RECURSIVE ZoneIntervalLoop(_, _, _, _)
ZoneIntervalLoop(tgs, intervals, k, zones) ==
    IF k > Len(intervals) THEN [zones |-> zones, trackingGroups |-> tgs]
    ELSE
    The({IF st.created
         THEN The({ZoneIntervalLoop(WrittenThrough(tgs, normalized), intervals, k + 1,
                       [st.zones EXCEPT ![Len(st.zones)].trackingGroups = normalized]) :
                     normalized \in
                         {normalizeGroups(st.zones[Len(st.zones)].trackingGroups)}})
         ELSE ZoneIntervalLoop(tgs, intervals, k + 1, st.zones) :
            st \in {ZoneGroupLoop(tgs, intervals[k], 1,
                                   [zones |-> zones, created |-> FALSE])}})

\* getZones from its call to its return statement: the zones and the groups
\* of the argument then.  firstSeries is
\* trackingGroups[0].seriesByKey.values().next().value.
GetZonesRun(tgs, firstSeries) ==
    LET breaks == {tgs[k].interval.start : k \in 1..Len(tgs)}
                      \cup {tgs[k].interval.end : k \in 1..Len(tgs)}
        sortedBreaks == Slice1(SortAsStrings(breaks))
    IN  ZoneIntervalLoop(tgs, breaksToIntervals(firstSeries, sortedBreaks), 1, <<>>)

\* The zones getZones returns, a group as [keys, interval].
getZones(tgs, firstSeries) ==
    LET zones == GetZonesRun(tgs, firstSeries).zones
    IN  [z \in 1..Len(zones) |->
            [zones[z] EXCEPT !.trackingGroups =
                [k \in 1..Len(zones[z].trackingGroups) |->
                    [keys |-> zones[z].trackingGroups[k].keys,
                     interval |-> zones[z].trackingGroups[k].interval]]]]

(***************************************************************************)
(* Tracking metadata (AiSeriesPairMetadataAnalyzer)                        *)
(***************************************************************************)
\* The keys a chart can use, in the order Array.prototype.sort gives them.
KeyOrder == <<"A", "B", "C", "D", "E">>

\* seriesByKey.keys(): the keys of the chart, a key set twice counted once.
KeysOf(allSeries) == {allSeries[k].key : k \in 1..Len(allSeries)}

outliers(tg, allSeries) ==
    SelectSeq(KeyOrder, LAMBDA key : key \in KeysOf(allSeries) /\ key \notin tg.keys)

\* keyMap.get(key): the last series of the chart set under the key.
SeriesByKey(allSeries, key) ==
    allSeries[CHOOSE k \in 1..Len(allSeries) :
                  /\ allSeries[k].key = key
                  /\ \A m \in (k + 1)..Len(allSeries) : allSeries[m].key # key]

\* Line.extractSection(interval): the points whose x lies in the interval.
extractSection(line, interval) ==
    SelectSeq(line.points, LAMBDA p : interval.start <= p.x /\ p.x <= interval.end)

\* The y of a point of the average line is the fraction sum / nseries.
\* The series of a chart share their x values, so the x of the first
\* section is that of any section.
averageLine(tg, allSeries) ==
    LET keys == SelectSeq(KeyOrder, LAMBDA key : key \in tg.keys)
        sections == [j \in 1..Len(keys) |->
                        extractSection(SeriesByKey(allSeries, keys[j]), tg.interval)]
        nseries == Len(sections)
    IN  [i \in 1..Len(sections[1]) |->
            [x |-> sections[1][i].x,
             y |-> [n |-> SumSeq([j \in 1..nseries |-> sections[j][i].y]),
                    d |-> nseries]]]

generateTrackingGroupMetadata(tg, allSeries) ==
    [keys |-> tg.keys,
     outliers |-> outliers(tg, allSeries),
     interval |-> <<NumToString(tg.interval.start), NumToString(tg.interval.end)>>,
     averageLine |-> averageLine(tg, allSeries)]

generateTrackingZoneMetadata(tz, allSeries) ==
    [groups |-> [k \in 1..Len(tz.trackingGroups) |->
                    generateTrackingGroupMetadata(tz.trackingGroups[k], allSeries)],
     interval |-> <<NumToString(tz.interval.start), NumToString(tz.interval.end)>>]

(***************************************************************************)
(* Spatial clusters (SpatialClusters, dbscan)                              *)
(***************************************************************************)
\* Distances and radii are numbers that may be NaN: [nan, v].
Num(v) == [nan |-> FALSE, v |-> v]
NumNaN == [nan |-> TRUE, v |-> 0]

\* a <= b on numbers: false when either is NaN.
NumLeq(a, b) == ~a.nan /\ ~b.nan /\ a.v <= b.v

\* Math.max(a, b): NaN when either is NaN (undefined converts to NaN).
NumMax(a, b) == IF a.nan \/ b.nan THEN NumNaN ELSE Num(Max2(a.v, b.v))

RECURSIVE InsertAscending(_, _)
InsertAscending(sorted, v) ==
    IF sorted = <<>> THEN <<v>>
    ELSE IF v < Head(sorted) THEN <<v>> \o sorted
    ELSE <<Head(sorted)>> \o InsertAscending(Tail(sorted), v)

RECURSIVE SortAscending(_)
SortAscending(seq) ==
    IF seq = <<>> THEN <<>>
    ELSE InsertAscending(SortAscending(SubSeq(seq, 1, Len(seq) - 1)), seq[Len(seq)])

\* dists[k] of the sorted distances from p; undefined (NaN once used as a
\* number) when there are not more than k values.
kDist(k, p, values) ==
    LET dists == SortAscending([i \in 1..Len(values) |-> Abs(p - values[i])])
    IN  IF k + 1 <= Len(dists) THEN Num(dists[k + 1]) ELSE NumNaN

rangeQueryMutStrictlyInside(values, q, eps) ==
    SelectSeq(values, LAMBDA n : ~eps.nan /\ Abs(q - n) < eps.v)

rangeQuery(values, q, eps) ==
    SelectSeq(values, LAMBDA n : NumLeq(Num(Abs(q - n)), eps))

\* A Map of values to tags: the values that have a tag, and the tags.
EmptyLabels == [has |-> {}, tag |-> <<>>]
LabelGet(labels, v) == labels.tag[CHOOSE k \in 1..Len(labels.tag) : labels.tag[k][1] = v][2]
LabelSet(labels, v, c) ==
    IF v \in labels.has
    THEN [labels EXCEPT !.tag = [k \in 1..Len(labels.tag) |->
                                    IF labels.tag[k][1] = v THEN <<v, c>> ELSE labels.tag[k]]]
    ELSE [has |-> labels.has \cup {v}, tag |-> Append(labels.tag, <<v, c>>)]

\* Set.add on a Set kept in insertion order.
RECURSIVE AddAll(_, _)
AddAll(seedSet, ns) ==
    IF ns = <<>> THEN seedSet
    ELSE AddAll(IF \E k \in 1..Len(seedSet) : seedSet[k] = Head(ns)
                THEN seedSet ELSE Append(seedSet, Head(ns)),
                Tail(ns))

\* The loop of dbscan over the seed set, which grows while it is walked.
RECURSIVE SeedLoop(_, _, _, _, _, _, _)
SeedLoop(values, eps, minPts, c, seedSet, k, labels) ==
    IF k > Len(seedSet) THEN labels
    ELSE
    LET q == seedSet[k]
        labels1 == IF q \in labels.has /\ LabelGet(labels, q) = NOISE
                   THEN LabelSet(labels, q, c) ELSE labels
    IN  IF q \in labels1.has
        THEN SeedLoop(values, eps, minPts, c, seedSet, k + 1, labels1)
        ELSE LET neighbors == rangeQuery(values, q, eps)
             IN  SeedLoop(values, eps, minPts, c,
                          IF Len(neighbors) >= minPts
                          THEN AddAll(seedSet, neighbors) ELSE seedSet,
                          k + 1, LabelSet(labels1, q, c))

\* st = [c, labels]
RECURSIVE DbscanLoop(_, _, _, _, _)
DbscanLoop(values, eps, minPts, i, st) ==
    IF i > Len(values) THEN st.labels
    ELSE
    LET p == values[i]
        neighbors == rangeQuery(values, p, eps)
    IN  IF p \in st.labels.has
        THEN DbscanLoop(values, eps, minPts, i + 1, st)
        ELSE IF Len(neighbors) < minPts
        THEN DbscanLoop(values, eps, minPts, i + 1,
                        [st EXCEPT !.labels = LabelSet(st.labels, p, NOISE)])
        ELSE LET c == st.c + 1
                 seedSet == AddAll(<<>>, SelectSeq(neighbors, LAMBDA e : e # p))
             IN  DbscanLoop(values, eps, minPts, i + 1,
                     [c |-> c,
                      labels |-> SeedLoop(values, eps, minPts, c, seedSet, 1,
                                          LabelSet(st.labels, p, c))])

dbscanMutFirstTagOne(values, eps, minPts) ==
    DbscanLoop(values, eps, minPts, 1, [c |-> 0, labels |-> EmptyLabels])

dbscan(values, eps, minPts) ==
    DbscanLoop(values, eps, minPts, 1, [c |-> -1, labels |-> EmptyLabels])

\* stat.mean of the y values of a line, in units of 1 / (MeanUnit * length):
\* the series of a chart have one length, so the means of a chart share the
\* unit.
MeanUnit == 10
ScaledMean(line) == MeanUnit * SumSeq([k \in 1..Len(line.points) |-> line.points[k].y])

\* toSorted((a, b) => -Math.sign(a - b)): descending, undefined last.
SortDescending(nums) ==
    LET defined == SelectSeq(nums, LAMBDA d : ~d.nan)
        sorted == Reverse(SortAscending([k \in 1..Len(defined) |-> defined[k].v]))
    IN  [k \in 1..Len(sorted) |-> Num(sorted[k])]
            \o SelectSeq(nums, LAMBDA d : d.nan)

\* const means = allSeries.map(line => stat.mean(...))
ClusterMeans(allSeries) == [k \in 1..Len(allSeries) |-> ScaledMean(allSeries[k])]

ClusterEpsMutWholeRange(allSeries, splitIdx) ==
    Num(10 * Len(allSeries[1].points)
           * (MaxOfSeq([k \in 1..Len(allSeries) |-> yBounds(allSeries[k]).end])
                 - MinOfSeq([k \in 1..Len(allSeries) |-> yBounds(allSeries[k]).start])))

\* The radius eps of the constructor; splitIdx is what findSplitIndex
\* returns.
ClusterEps(allSeries, splitIdx) ==
    LET means == ClusterMeans(allSeries)
        kDists == SortDescending([k \in 1..Len(means) |-> kDist(1, means[k], means)])
        minY == MinOfSeq([k \in 1..Len(allSeries) |-> yBounds(allSeries[k]).start])
        maxY == MaxOfSeq([k \in 1..Len(allSeries) |-> yBounds(allSeries[k]).end])
        yRange == maxY - minY
        \* yRange / 10 in the unit of the means
        minEps == Num(yRange * Len(allSeries[1].points))
    IN  NumMax(IF splitIdx + 1 \in 1..Len(kDists) THEN kDists[splitIdx + 1] ELSE NumNaN,
               minEps)

\* The loop of the constructor over the means: this.clusters is an array
\* indexed by tag (an index no series has the tag of stays an empty slot),
\* this.noise the series tagged NOISE.
ClustersOfTags(allSeries, means, clusterTags) ==
    LET indices == [i \in 1..Len(means) |-> i]
        tagAt == [i \in 1..Len(means) |-> LabelGet(clusterTags, means[i])]
        maxTag == MaxOfSeq(<<NOISE>> \o tagAt)
    IN  [clusters |-> [t \in 1..(maxTag + 1) |->
                          LET members == SelectSeq(indices, LAMBDA i : tagAt[i] = t - 1)
                          IN  [k \in 1..Len(members) |-> allSeries[members[k]]]],
         noise |-> LET members == SelectSeq(indices, LAMBDA i : tagAt[i] = NOISE)
                   IN  [k \in 1..Len(members) |-> allSeries[members[k]]]]

\* new SpatialClusters(allSeries); splitIdx is what findSplitIndex returns.
SpatialClusters(allSeries, splitIdx) ==
    The({ClustersOfTags(allSeries, means, The({dbscan(means, eps, MIN_POINTS) :
                                                  eps \in {ClusterEps(allSeries, splitIdx)}})) :
            means \in {ClusterMeans(allSeries)}})

(***************************************************************************)
(* The enhanced analyzer (AiSeriesPairMetadataAnalyzer)                    *)
(***************************************************************************)
\* What the libraries the enhanced analyzer calls return for a chart:
\* trajectories[k] is getRelativeTrajectories of the k-th pair of series,
\* splitIdx is findSplitIndex of the line of nearest-neighbour distances.
NoOracle == [trajectories |-> <<>>, splitIdx |-> 0]

\* The fields the enhanced constructor assigns after super(): tgs is what
\* getGroups returned, sc the SpatialClusters object.
AiFields(base, tgs, sc, arr) ==
    [base EXCEPT
        !.trackingGroups = [k \in 1..Len(tgs) |-> generateTrackingGroupMetadata(tgs[k], arr)],
        !.trackingZones =
            IF Len(tgs) > 0
            THEN LET tzs == getZones(tgs, arr[1])
                 IN  [k \in 1..Len(tzs) |-> generateTrackingZoneMetadata(tzs[k], arr)]
            ELSE base.trackingZones,
        !.clusters = [c \in 1..Len(sc.clusters) |->
                         [k \in 1..Len(sc.clusters[c]) |-> sc.clusters[c][k].key]],
        !.clusterOutliers = [k \in 1..Len(sc.noise) |-> sc.noise[k].key]]

\* The enhanced constructor after super() returned base or threw.
AfterSuper(base, arr, orc) ==
    IF "throw" \in DOMAIN base THEN base
    ELSE AiFields(base, getGroups(arr, orc.trajectories),
                  SpatialClusters(arr, orc.splitIdx), arr)

\* The fields of a constructed analyzer, or [throw |-> code].
AiConstructor(arr, size, orc) == AfterSuper(BasicConstructor(arr, size), arr, orc)

\* new BasicSeriesPairMetadataAnalyzer(...) or new AiSeriesPairMetadataAnalyzer(...)
Constructor(k, arr, size, orc) ==
    IF k = "ai" THEN AiConstructor(arr, size, orc) ELSE BasicConstructor(arr, size)

\* What the accessors of the analyzer return.
analyzerGetIntersections == intersections
getOverlaps == overlaps
getParallels == parallels
analyzerGetPairs == pairs
getTrackingGroups == <<>>
getTrackingZones == <<>>
getClusters == <<>>
getClusterOutliersMutStored == clusterOutliers
getClusterOutliers == <<>>

(***************************************************************************)
(* Inputs                                                                  *)
(***************************************************************************)
\* screenCoordSysSize, as the callers of the analyzers pass it.
screenCoordSysSize == <<1, 1>>

\* A line over the records x = 0, 1, ..., one per y-value.
LineOf(key, ys) == [key |-> key, points |-> [k \in 1..Len(ys) |-> [x |-> k - 1, y |-> ys[k]]]]

\* The lines a longer line is compared with: itself, its mirror image and
\* the flat lines.
Companions(ya) ==
    {ya, [k \in 1..Len(ya) |-> ya[Len(ya) + 1 - k]]}
        \cup {[k \in 1..Len(ya) |-> y] : y \in YValues}

\* Two keyed lines of one length over the same records: every pair of lines
\* up to MaxFullLen records, and every line with its companions beyond.
PairInputs ==
    UNION {{<<LineOf("A", ya), LineOf("B", yb)>> :
               ya \in [1..n -> YValues], yb \in [1..n -> YValues]} : n \in 2..MaxFullLen}
    \cup
    UNION {UNION {{<<LineOf("A", ya), LineOf("B", yb)>> : yb \in Companions(ya)} :
               ya \in [1..n -> YValues]} : n \in (MaxFullLen + 1)..MaxLen}

\* A flat line of a series list: keyed or not, and with its records in
\* order or with a last record that repeats the x of the one before it.
SampleLine(key, level, c) ==
    [key |-> IF c.keyed THEN key ELSE Undefined,
     points |-> [k \in 1..c.len |->
                    [x |-> IF c.stalled /\ k = c.len THEN k - 2 ELSE k - 1,
                     y |-> level]]]

LineChoices == [len : ListLens, keyed : BOOLEAN, stalled : BOOLEAN]

\* Lists of one to MaxSeries flat lines, the i-th at the level 5 * i.
ListInputs ==
    UNION {{[i \in 1..k |-> SampleLine(KeyOrder[i], 5 * i, c[i])] :
               c \in [1..k -> LineChoices]} : k \in 1..MaxSeries}

\* Charts of keyed flat lines of one length over the same records, at two
\* levels in turn.
ChartInputs ==
    {[i \in 1..k |-> LineOf(KeyOrder[i],
                            [j \in 1..(MaxFullLen) |-> IF i % 2 = 1 THEN 5 ELSE 50])] :
        k \in 1..MaxSeries}

InputsOf(k) == IF k = "ai" THEN ListInputs \cup ChartInputs ELSE ListInputs \cup PairInputs

\* What getRelativeTrajectories may return for a pair of a chart.
Trajectory(type, start, end, degree) ==
    [type |-> type, interval |-> [start |-> start, end |-> end], degree |-> degree]

TrajectoryChoices(arr) ==
    LET first == arr[1].points[1].x
        second == arr[1].points[2].x
        last == arr[1].points[Len(arr[1].points)].x
        one == [n |-> 1, d |-> 1]
        half == [n |-> 1, d |-> 2]
    IN  {<<Trajectory("diverging", first, last, half)>>,
         <<Trajectory("tracking", first, last, one)>>,
         <<Trajectory("tracking", first, second, one),
           Trajectory("converging", second, last, half)>>}

OraclesFor(k, arr) ==
    IF k # "ai" \/ "throw" \in DOMAIN BasicConstructor(arr, screenCoordSysSize)
    THEN {NoOracle}
    ELSE [trajectories : [1..Len(getPairs(Len(arr), 1, 2)) -> TrajectoryChoices(arr)],
          splitIdx : 0..(Len(arr) - 1)]

NoRet == [op |-> "none", val |-> <<>>]
NoSegArgs == [seg1 |-> NullV, seg2 |-> NullV, yScale |-> NaN]
(***************************************************************************)
(* Specification of an analyzer: construction, then accessor calls.        *)
(***************************************************************************)
fields == <<intersections, overlaps, parallels, pairs,
            trackingGroups, trackingZones, clusters, clusterOutliers>>

direct == <<segArgs, segRes, groups, merged>>

Init ==
    /\ kind \in {"basic", "ai"}
    /\ seriesArray \in InputsOf(kind)
    /\ oracle \in OraclesFor(kind, seriesArray)
    /\ pc = "new"
    /\ err = NoErr
    /\ intersections = <<>>
    /\ overlaps = <<>>
    /\ parallels = <<>>
    /\ pairs = <<>>
    /\ trackingGroups = <<>>
    /\ trackingZones = <<>>
    /\ clusters = <<>>
    /\ clusterOutliers = <<>>
    /\ ret = NoRet
    /\ segArgs = NoSegArgs
    /\ segRes = NullV
    /\ groups = <<>>
    /\ merged = <<>>

\* new ...Analyzer(seriesArray, screenCoordSysSize): the object's fields are
\* those the constructor assigned, or the constructor threw and there is no
\* object.
Construct ==
    /\ pc = "new"
    /\ LET r == Constructor(kind, seriesArray, screenCoordSysSize, oracle)
       IN  IF "throw" \in DOMAIN r
           THEN /\ pc' = "err"
                /\ err' = r.throw
                /\ UNCHANGED fields
           ELSE /\ pc' = "ok"
                /\ err' = NoErr
                /\ intersections' = r.intersections
                /\ overlaps' = r.overlaps
                /\ parallels' = r.parallels
                /\ pairs' = r.pairs
                /\ trackingGroups' = r.trackingGroups
                /\ trackingZones' = r.trackingZones
                /\ clusters' = r.clusters
                /\ clusterOutliers' = r.clusterOutliers
    /\ UNCHANGED <<kind, seriesArray, oracle, ret, direct>>

\* The calls of the accessors on the constructed object: each leaves the
\* object as it is and hands its result to the caller.
object == <<kind, seriesArray, oracle, pc, err, fields, direct>>

CallGetIntersections ==
    /\ pc = "ok"
    /\ ret' = [op |-> "getIntersections", val |-> analyzerGetIntersections]
    /\ UNCHANGED object

CallGetOverlaps ==
    /\ pc = "ok"
    /\ ret' = [op |-> "getOverlaps", val |-> getOverlaps]
    /\ UNCHANGED object

CallGetParallels ==
    /\ pc = "ok"
    /\ ret' = [op |-> "getParallels", val |-> getParallels]
    /\ UNCHANGED object

CallGetPairs ==
    /\ pc = "ok"
    /\ ret' = [op |-> "getPairs", val |-> analyzerGetPairs]
    /\ UNCHANGED object

CallGetTrackingGroups ==
    /\ pc = "ok"
    /\ ret' = [op |-> "getTrackingGroups", val |-> getTrackingGroups]
    /\ UNCHANGED object

CallGetTrackingZones ==
    /\ pc = "ok"
    /\ ret' = [op |-> "getTrackingZones", val |-> getTrackingZones]
    /\ UNCHANGED object

CallGetClusters ==
    /\ pc = "ok"
    /\ ret' = [op |-> "getClusters", val |-> getClusters]
    /\ UNCHANGED object

CallGetClusterOutliers ==
    /\ pc = "ok"
    /\ ret' = [op |-> "getClusterOutliers", val |-> getClusterOutliers]
    /\ UNCHANGED object

Next ==
    \/ Construct
    \/ CallGetIntersections
    \/ CallGetOverlaps
    \/ CallGetParallels
    \/ CallGetPairs
    \/ CallGetTrackingGroups
    \/ CallGetTrackingZones
    \/ CallGetClusters
    \/ CallGetClusterOutliers

Spec == Init /\ [][Next]_vars

(***************************************************************************)
(* Specification of the segment kernel: one direct call of                 *)
(* checkIntersection or of findSlope on segments of any shape.             *)
(***************************************************************************)
SegYValues == YValues \cup {15}
SegPoints == {[x |-> x, y |-> y] : x \in 0..MaxSegX, y \in SegYValues}
Segments == {[start |-> p, end |-> q] : p \in SegPoints, q \in SegPoints}
YScales == {[n |-> 1, d |-> 10], [n |-> 1, d |-> 1], [n |-> 3, d |-> 10], [n |-> 3, d |-> 1]}

\* The analyzer object and the merge pass take no part in this specification.
NoAnalyzer ==
    /\ kind = "none"
    /\ seriesArray = <<>>
    /\ oracle = NoOracle
    /\ intersections = <<>>
    /\ overlaps = <<>>
    /\ parallels = <<>>
    /\ pairs = <<>>
    /\ trackingGroups = <<>>
    /\ trackingZones = <<>>
    /\ clusters = <<>>
    /\ clusterOutliers = <<>>

InitSeg ==
    /\ NoAnalyzer
    /\ segArgs \in [seg1 : Segments, seg2 : Segments, yScale : YScales]
    /\ segRes = NullV
    /\ pc = "new"
    /\ err = NoErr
    /\ ret = NoRet
    /\ groups = <<>>
    /\ merged = <<>>

\* What a direct call leaves: its result, or the code of the Err it threw.
Returned(op, r) ==
    /\ pc = "new"
    /\ segRes' = r
    /\ pc' = IF "throw" \in DOMAIN r THEN "err" ELSE "ok"
    /\ err' = IF "throw" \in DOMAIN r THEN r.throw ELSE NoErr
    /\ ret' = [op |-> op, val |-> <<>>]
    /\ UNCHANGED <<kind, seriesArray, oracle, fields, segArgs, groups, merged>>

CallCheckIntersection ==
    \E r \in {checkIntersection(segArgs.seg1, segArgs.seg2, segArgs.yScale, 0)} :
        Returned("checkIntersection", r)

CallFindSlope ==
    \E r \in {findSlope(segArgs.seg1, segArgs.yScale)} :
        Returned("findSlope", r)

NextSeg == CallCheckIntersection \/ CallFindSlope

SpecSeg == InitSeg /\ [][NextSeg]_vars

(***************************************************************************)
(* Specification of the merge pass: one direct call of mergeGroups.        *)
(***************************************************************************)
KeySets == {{"A", "B"}, {"A", "C"}}
Intervals ==
    UNION {{[start |-> a, end |-> b] : b \in (a + 1)..MaxX} : a \in 0..MaxX}
GroupChoices == [keys : KeySets, interval : Intervals]

InitMerge ==
    /\ NoAnalyzer
    /\ groups \in UNION {[1..n -> GroupChoices] : n \in 1..MaxGroups}
    /\ merged = <<>>
    /\ pc = "new"
    /\ err = NoErr
    /\ ret = NoRet
    /\ segArgs = NoSegArgs
    /\ segRes = NullV

CallMergeGroups ==
    /\ pc = "new"
    /\ merged' = mergeGroups(groups)
    /\ pc' = "ok"
    /\ ret' = [op |-> "mergeGroups", val |-> <<>>]
    /\ UNCHANGED <<kind, seriesArray, oracle, err, fields, segArgs, segRes, groups>>

NextMerge == CallMergeGroups

SpecMerge == InitMerge /\ [][NextMerge]_vars

(***************************************************************************)
(* Specification of normalization: one direct call of normalizeGroups,     *)
(* taken step by step.  merged holds the local variable groups of          *)
(* normalizeGroups (and of the mergeGroups call it makes); pc is the       *)
(* position in it: "new" (not called), "merge" (in the do-while of         *)
(* mergeGroups), "supplete" (before the suppleteGroups call of the loop),  *)
(* "ok" (returned).  A second call on the returned list follows.           *)
(***************************************************************************)
NormKeySets == {{"A", "B"}, {"B", "C"}, {"D", "E"}}
NormIntervals ==
    UNION {{[start |-> a, end |-> b] : b \in (a + 1)..MaxNormX} : a \in 0..MaxNormX}
NormGroupChoices == [keys : NormKeySets, interval : NormIntervals]

\* A chart of three lines over x = 0..4 and what getRelativeTrajectories may
\* return for a pair of it: tracking on the first stretch, on the last
\* stretch, on both or on neither.
NormChart == [i \in 1..3 |-> LineOf(KeyOrder[i], <<5, 5, 5, 5, 5>>)]
NormTrajectoryChoices ==
    LET one == [n |-> 1, d |-> 1]
        half == [n |-> 1, d |-> 2]
    IN  {<<Trajectory("diverging", 0, 4, half)>>,
         <<Trajectory("tracking", 0, 1, one), Trajectory("diverging", 1, 4, half)>>,
         <<Trajectory("converging", 0, 3, half), Trajectory("tracking", 3, 4, one)>>,
         <<Trajectory("tracking", 0, 1, one), Trajectory("diverging", 1, 3, half),
           Trajectory("tracking", 3, 4, one)>>}
NormOracles == [trajectories : [1..3 -> NormTrajectoryChoices], splitIdx : {0}]

\* The argument is any list of groups, or the list getGroups hands to
\* normalizeGroups for a chart.
InitNorm ==
    /\ kind = "none"
    /\ \/ /\ seriesArray = <<>>
          /\ oracle = NoOracle
          /\ groups \in UNION {[1..n -> NormGroupChoices] : n \in 0..MaxNormGroups}
       \/ /\ seriesArray = NormChart
          /\ oracle \in NormOracles
          /\ groups = createGroupsFromPairs(TrackingPairsIn(seriesArray, oracle.trajectories))
    /\ intersections = <<>>
    /\ overlaps = <<>>
    /\ parallels = <<>>
    /\ pairs = <<>>
    /\ trackingGroups = <<>>
    /\ trackingZones = <<>>
    /\ clusters = <<>>
    /\ clusterOutliers = <<>>
    /\ merged = <<>>
    /\ pc = "new"
    /\ err = NoErr
    /\ ret = NoRet
    /\ segArgs = NoSegArgs
    /\ segRes = NullV

NormFrame == UNCHANGED <<kind, seriesArray, oracle, err, fields, segArgs, segRes, groups>>

\* let didSupplete = TrackingGroupBuilder.suppleteGroups(groups);
NormFirstSupplete ==
    /\ pc = "new"
    /\ merged' = suppleteGroups(groups).gs
    /\ pc' = "merge"
    /\ UNCHANGED ret
    /\ NormFrame

\* One turn of the do-while of mergeGroups in which a pair is merged.
NormMergeStep ==
    /\ pc = "merge"
    /\ Len(merged) > 0
    /\ FirstMergePair(merged) # <<0, 0>>
    /\ merged' = MergePair(merged, FirstMergePair(merged))
    /\ UNCHANGED <<pc, ret>>
    /\ NormFrame

\* The turn in which nothing is merged (or the list is empty): mergeGroups
\* returns.
NormMergeReturn ==
    /\ pc = "merge"
    /\ Len(merged) = 0 \/ FirstMergePair(merged) = <<0, 0>>
    /\ pc' = "supplete"
    /\ UNCHANGED <<merged, ret>>
    /\ NormFrame

\* didSupplete = TrackingGroupBuilder.suppleteGroups(groups); while (didSupplete)
NormSupplete ==
    /\ pc = "supplete"
    /\ \E sup \in {suppleteGroups(merged)} :
          /\ merged' = sup.gs
          /\ pc' = IF sup.did THEN "merge" ELSE "ok"
    /\ UNCHANGED ret
    /\ NormFrame

\* The list the caller holds: getGroups reverses what normalizeGroups
\* returned to it.
Held == IF seriesArray = <<>> THEN merged ELSE Reverse(merged)

\* normalizeGroups called on the list the caller holds.
NormAgain ==
    /\ pc = "ok"
    /\ ret = NoRet
    /\ ret' = [op |-> "normalizeGroups", val |-> normalizeGroups(Held)]
    /\ UNCHANGED <<pc, merged>>
    /\ NormFrame

NextNorm ==
    \/ NormFirstSupplete
    \/ NormMergeStep
    \/ NormMergeReturn
    \/ NormSupplete
    \/ NormAgain

SpecNorm == InitNorm /\ [][NextNorm]_vars

\* The steps of a call are taken one after another until it returns.
NormCallStep ==
    \/ NormFirstSupplete
    \/ NormMergeStep
    \/ NormMergeReturn
    \/ NormSupplete

SpecNormFair == SpecNorm /\ WF_vars(NormCallStep)

(***************************************************************************)
(* Specification of the zone partitioner: one direct call of getZones on a *)
(* non-empty list of tracking groups of a chart.                           *)
(***************************************************************************)
\* The x-values of the records of the chart, in order.
ZoneXsChoices == {<<0, 2, 10, 12>>, <<5, 7, 10, 40>>}
ZoneChart(ZoneXs) ==
    [i \in 1..3 |->
        [key |-> KeyOrder[i], points |-> [k \in 1..Len(ZoneXs) |-> [x |-> ZoneXs[k], y |-> 5]]]]
ZoneIntervals(ZoneXs) ==
    UNION {{[start |-> ZoneXs[a], end |-> ZoneXs[b]] : b \in (a + 1)..Len(ZoneXs)} :
              a \in 1..Len(ZoneXs)}
ZoneGroupChoices(ZoneXs) ==
    [keys : {{"A", "B"}, {"B", "C"}}, interval : ZoneIntervals(ZoneXs)]

InitZones ==
    /\ kind = "none"
    /\ \E ZoneXs \in ZoneXsChoices :
          /\ seriesArray = ZoneChart(ZoneXs)
          /\ groups \in UNION {[1..n -> ZoneGroupChoices(ZoneXs)] : n \in 1..MaxGroups}
    /\ oracle = NoOracle
    /\ merged = <<>>
    /\ pc = "new"
    /\ err = NoErr
    /\ ret = NoRet
    /\ segArgs = NoSegArgs
    /\ segRes = NullV
    /\ intersections = <<>>
    /\ overlaps = <<>>
    /\ parallels = <<>>
    /\ pairs = <<>>
    /\ trackingGroups = <<>>
    /\ trackingZones = <<>>
    /\ clusters = <<>>
    /\ clusterOutliers = <<>>

\* TrackingZoneBuilder.getZones(groups); the first series of the chart is
\* the first value of the seriesByKey map.
CallGetZones ==
    /\ pc = "new"
    /\ ret' = [op |-> "getZones", val |-> getZones(groups, seriesArray[1])]
    /\ groups' = GetZonesRun(groups, seriesArray[1]).trackingGroups
    /\ pc' = "ok"
    /\ UNCHANGED <<kind, seriesArray, oracle, err, fields, segArgs, segRes, merged>>

NextZones == CallGetZones

SpecZones == InitZones /\ [][NextZones]_vars

(***************************************************************************)
(* Specification of the cluster engine: one direct call of                 *)
(* new SpatialClusters(allSeries).  The y-values of the five-series chart  *)
(* are in tenths (10 stands for 1.0): the engine compares differences of   *)
(* means with a radius that is itself a difference of means or a tenth of  *)
(* the y-range, so its result does not depend on the unit of y.            *)
(***************************************************************************)
ClusterLevels == {0, 1, 2, 30, 31}

\* Charts of keyed flat lines of two records, each at one of the levels.
LevelCharts ==
    UNION {{[i \in 1..n |-> LineOf(KeyOrder[i], <<lv[i], lv[i]>>)] :
               lv \in [1..n -> ClusterLevels]} : n \in 1..MaxClusterSeries}

\* Five series with the means 1, 1.1, 1.2, 50 and 50.1; the first one
\* swings by spread around its mean, the others are flat.
FiveMeans == <<10, 11, 12, 500, 501>>
FiveSeriesChart(spread) ==
    [i \in 1..5 |->
        LineOf(KeyOrder[i],
               IF i = 1 THEN <<FiveMeans[1] - spread, FiveMeans[1] + spread>>
               ELSE <<FiveMeans[i], FiveMeans[i]>>)]
FiveSeriesCharts == {FiveSeriesChart(spread) : spread \in {0, 100, 3000}}

InitClusters ==
    /\ kind = "none"
    /\ seriesArray \in LevelCharts \cup FiveSeriesCharts
    /\ oracle \in [trajectories : {<<>>}, splitIdx : 0..(Len(seriesArray) - 1)]
    /\ groups = <<>>
    /\ merged = <<>>
    /\ pc = "new"
    /\ err = NoErr
    /\ ret = NoRet
    /\ segArgs = NoSegArgs
    /\ segRes = NullV
    /\ intersections = <<>>
    /\ overlaps = <<>>
    /\ parallels = <<>>
    /\ pairs = <<>>
    /\ trackingGroups = <<>>
    /\ trackingZones = <<>>
    /\ clusters = <<>>
    /\ clusterOutliers = <<>>

\* const clusters = new SpatialClusters(seriesArray)
CallSpatialClusters ==
    /\ pc = "new"
    /\ ret' = [op |-> "SpatialClusters",
               val |-> SpatialClusters(seriesArray, oracle.splitIdx)]
    /\ pc' = "ok"
    /\ UNCHANGED <<kind, seriesArray, oracle, err, fields, segArgs, segRes, groups, merged>>

NextClusters == CallSpatialClusters

SpecClusters == InitClusters /\ [][NextClusters]_vars

(***************************************************************************)
(* Specification of the tracking pipeline of the enhanced constructor:     *)
(* getGroups on the series of a chart, then getZones on the groups it      *)
(* returned when there are any.                                            *)
(***************************************************************************)
TrackXs == {<<0, 1, 2, 3>>, <<0, 2, 10, 12>>}

\* Charts of two or three keyed flat lines over the same records.
TrackCharts ==
    {[i \in 1..n |->
         [key |-> KeyOrder[i], points |-> [k \in 1..Len(xs) |-> [x |-> xs[k], y |-> 5 * i]]]] :
        n \in 2..3, xs \in TrackXs}

\* What getRelativeTrajectories may return for a pair of such a chart.
TrackTrajectoryChoices(arr) ==
    LET first == arr[1].points[1].x
        second == arr[1].points[2].x
        third == arr[1].points[3].x
        last == arr[1].points[Len(arr[1].points)].x
    IN  {<<Trajectory("tracking", first, last, [n |-> 1, d |-> 1])>>,
         <<Trajectory("tracking", first, last, [n |-> 9, d |-> 10])>>,
         <<Trajectory("tracking", first, last, [n |-> 89, d |-> 100])>>,
         <<Trajectory("diverging", first, last, [n |-> 1, d |-> 2])>>,
         <<Trajectory("tracking", first, third, [n |-> 1, d |-> 1]),
           Trajectory("diverging", third, last, [n |-> 1, d |-> 2])>>,
         <<Trajectory("converging", first, second, [n |-> 1, d |-> 2]),
           Trajectory("tracking", second, last, [n |-> 19, d |-> 20])>>}

InitTrack ==
    /\ kind = "none"
    /\ seriesArray \in TrackCharts
    /\ oracle \in [trajectories : [1..Len(getPairs(Len(seriesArray), 1, 2))
                                      -> TrackTrajectoryChoices(seriesArray)],
                   splitIdx : {0}]
    /\ groups = <<>>
    /\ merged = <<>>
    /\ pc = "new"
    /\ err = NoErr
    /\ ret = NoRet
    /\ segArgs = NoSegArgs
    /\ segRes = NullV
    /\ intersections = <<>>
    /\ overlaps = <<>>
    /\ parallels = <<>>
    /\ pairs = <<>>
    /\ trackingGroups = <<>>
    /\ trackingZones = <<>>
    /\ clusters = <<>>
    /\ clusterOutliers = <<>>

\* const trackingGroups = TrackingGroupBuilder.getGroups(seriesArray, undefined, 0.90)
TrackGetGroups ==
    /\ pc = "new"
    /\ groups' = getGroups(seriesArray, oracle.trajectories)
    /\ pc' = "groups"
    /\ UNCHANGED <<kind, seriesArray, oracle, err, fields, ret, segArgs, segRes, merged>>

\* if (trackingGroups.length) TrackingZoneBuilder.getZones(trackingGroups)
TrackGetZones ==
    /\ pc = "groups"
    /\ Len(groups) > 0
    /\ ret' = [op |-> "getZones", val |-> getZones(groups, seriesArray[1])]
    /\ pc' = "ok"
    /\ UNCHANGED <<kind, seriesArray, oracle, err, fields, segArgs, segRes, groups, merged>>

NextTrack ==
    \/ TrackGetGroups
    \/ TrackGetZones

SpecTrack == InitTrack /\ [][NextTrack]_vars

(***************************************************************************)
(* Specification of the grouping of tracking pairs: one direct call of     *)
(* createGroupsFromPairs.  groups holds the argument trackingPairs, merged *)
(* the groups returned.                                                    *)
(***************************************************************************)
PairKeys == <<"A", "B", "C", "D">>
PairIntervals == {[start |-> 0, end |-> 1], [start |-> 0, end |-> 2]}

\* The tracking pairs getGroups can collect of four series: the key pairs
\* that getPairs gives, each over one of the intervals.
TrackingPairChoices ==
    LET keyPairs == getPairs(Len(PairKeys), 1, 2) IN
    {[keyPair |-> <<PairKeys[p[1]], PairKeys[p[2]]>>, interval |-> inter] :
        p \in {keyPairs[k] : k \in 1..Len(keyPairs)}, inter \in PairIntervals}

InitPairs ==
    /\ NoAnalyzer
    /\ groups \in UNION {[1..n -> TrackingPairChoices] : n \in 1..MaxPairs}
    /\ merged = <<>>
    /\ pc = "new"
    /\ err = NoErr
    /\ ret = NoRet
    /\ segArgs = NoSegArgs
    /\ segRes = NullV

CallCreateGroupsFromPairs ==
    /\ pc = "new"
    /\ merged' = createGroupsFromPairs(groups)
    /\ pc' = "ok"
    /\ ret' = [op |-> "createGroupsFromPairs", val |-> <<>>]
    /\ UNCHANGED <<kind, seriesArray, oracle, err, fields, segArgs, segRes, groups>>

NextPairs == CallCreateGroupsFromPairs

SpecPairs == InitPairs /\ [][NextPairs]_vars

(***************************************************************************)
(* The data model: boxes, data frames, series and models.                  *)
(*                                                                         *)
(* A box is [datatype, raw, value]; a datapoint is [data, seriesKey,       *)
(* datapointIndex] with data a row, a function of facet keys to boxes; a   *)
(* series is [key, facetSignatures, datapoints]; a model is the list of    *)
(* its series, whose first series gives the facets of the model.           *)
(***************************************************************************)
\* parseFloat of the raw strings the model uses.
parseFloat(raw) ==
    CASE raw = "0" -> 0
      [] raw = "1" -> 1
      [] raw = "2" -> 2
      [] raw = "5" -> 5
      [] raw = "5.0" -> 5
      [] raw = "10" -> 10

\* A JavaScript value that is a number or a string; two of them are
\* strictly equal (===) when they have the same type and the same value.
JsNumber(n) == [type |-> "number", n |-> n, s |-> ""]
JsString(str) == [type |-> "string", n |-> 0, s |-> str]

NumberBox(raw) == [datatype |-> "number", raw |-> raw, value |-> JsNumber(parseFloat(raw))]
StringBox(raw) == [datatype |-> "string", raw |-> raw, value |-> JsString(raw)]

\* new BOX_CONSTRUCTORS[datatype](raw)
BoxOf(datatype, raw) == IF datatype = "number" THEN NumberBox(raw) ELSE StringBox(raw)

\* NumberBox.isEqual and StringBox.isEqual
isEqual(this, other) == this.value = other.value

\* Series._facetDatatypeMappedByKey[facetKey] and Model._facetDatatypeMap[facetKey]
FacetDatatype(facetSignatures, facetKey) ==
    IF \E k \in 1..Len(facetSignatures) : facetSignatures[k].key = facetKey
    THEN facetSignatures[CHOOSE k \in 1..Len(facetSignatures) :
                             /\ facetSignatures[k].key = facetKey
                             /\ \A j \in (k + 1)..Len(facetSignatures) :
                                    facetSignatures[j].key # facetKey].datatype
    ELSE Undefined

\* DataFrame.addDatapoint and DataFrame.rows for one raw datapoint.
DataFrameRow(facetSignatures, rawDatapoint) ==
    [key \in {facetSignatures[k].key : k \in 1..Len(facetSignatures)} |->
        BoxOf(FacetDatatype(facetSignatures, key), rawDatapoint[key])]

\* new PlaneSeries(manifest, rawData, facetSignatures, indepKey, depKey);
\* datapointIndex is 0-based.
NewSeries(key, rawData, facetSignatures) ==
    [key |-> key,
     facetSignatures |-> facetSignatures,
     datapoints |-> [k \in 1..Len(rawData) |->
                        [data |-> DataFrameRow(facetSignatures, rawData[k]),
                         seriesKey |-> key,
                         datapointIndex |-> k - 1]]]

\* The first datapoint of the series from position k on whose box of the
\* facet equals value, or null.
RECURSIVE FirstDatapointAt(_, _, _, _)
FirstDatapointAt(series, facetKey, value, k) ==
    IF k > Len(series.datapoints) THEN NullV
    ELSE IF isEqual(series.datapoints[k].data[facetKey], value) THEN series.datapoints[k]
    ELSE FirstDatapointAt(series, facetKey, value, k + 1)

datapointAtMutLast(series, facetKey, value) ==
    IF \/ FacetDatatype(series.facetSignatures, facetKey) = Undefined
       \/ value.datatype # FacetDatatype(series.facetSignatures, facetKey)
    THEN NullV
    ELSE IF isEqual(series.datapoints[Len(series.datapoints)].data[facetKey], value)
    THEN series.datapoints[Len(series.datapoints)]
    ELSE NullV

datapointAt(series, facetKey, value) ==
    IF \/ FacetDatatype(series.facetSignatures, facetKey) = Undefined
       \/ value.datatype # FacetDatatype(series.facetSignatures, facetKey)
    THEN NullV
    ELSE FirstDatapointAt(series, facetKey, value, 1)

\* PlaneModel.getChordAt; allSeries is this.series.  The result is
\* [null, datapoints]: null, or the list of datapoints.
getChordAt(allSeries, facetKey, value) ==
    IF \/ FacetDatatype(allSeries[1].facetSignatures, facetKey) = Undefined
       \/ value.datatype # FacetDatatype(allSeries[1].facetSignatures, facetKey)
    THEN [null |-> TRUE, datapoints |-> <<>>]
    ELSE [null |-> FALSE,
          datapoints |->
              SelectSeq([k \in 1..Len(allSeries) |->
                            datapointAt(allSeries[k], facetKey, value)],
                        LAMBDA datapoint : datapoint # NullV)]

\* point.facetValue(key) of a number facet
facetValue(point, key) == point.data[key].value.n

\* calculateFacetStats(facetKey, datapoints): the values of min and max.
calculateFacetStats(facetKey, datapoints) ==
    LET facetValues == {facetValue(datapoints[k], facetKey) : k \in 1..Len(datapoints)}
    IN  [min |-> [value |-> CHOOSE v \in facetValues : \A w \in facetValues : v <= w],
         max |-> [value |-> CHOOSE v \in facetValues : \A w \in facetValues : v >= w]]

\* scaleValues(yMultiplier, vals).  scaleAndRound belongs to the package
\* @fizz/number-scaling-rounding: it gives one scaled number for each of its
\* inputs, in their order; the scaled number of {number, scale} is held as
\* that pair.
scaleValues(yMultiplier, vals) ==
    [k \in 1..Len(vals) |-> [number |-> vals[k], scale |-> yMultiplier]]

\* Array.prototype.slice(start, end) for 0 <= start, 0 <= end.
Slice(seq, start, end) == SubSeq(seq, start + 1, Min2(end, Len(seq)))

\* scaled.slice(seriesIdx * stride, seriesIdx + 1 * stride)
SeriesSlice(scaled, seriesIdx, stride) ==
    Slice(scaled, seriesIdx * stride, seriesIdx + (1 * stride))

\* An object built by assigning obj[allSeries[idx].key] = value[idx] for
\* idx = 0, 1, ...: the later assignment wins on equal keys.
ByKey(allSeries, value) ==
    [key \in {allSeries[k].key : k \in 1..Len(allSeries)} |->
        value[CHOOSE k \in 1..Len(allSeries) :
                  /\ allSeries[k].key = key
                  /\ \A j \in (k + 1)..Len(allSeries) : allSeries[j].key # key]]

\* generateValues(allSeries, intersections, yMultiplier); isects is the
\* list of intersections, yMultiplier is
\* <<>> when it is not given and <<m>> when it is m.  The result is
\* [seriesMap, seriesStatsMap, intersectionValues].
generateValues(allSeries, isects, yMultiplier) ==
    LET n == Len(allSeries)
        rawSeriesValues ==
            ConcatAll([i \in 1..n |->
                [k \in 1..Len(allSeries[i].datapoints) |->
                    facetValue(allSeries[i].datapoints[k], "y")]])
        rawStatsValues ==
            ConcatAll([i \in 1..n |->
                LET datapoints == allSeries[i].datapoints
                    seriesYStats == calculateFacetStats("y", datapoints)
                IN  <<facetValue(datapoints[1], "y"),
                      facetValue(datapoints[Len(datapoints)], "y"),
                      seriesYStats.max.value,
                      seriesYStats.min.value>>])
        rawValues ==
            rawSeriesValues \o rawStatsValues
                \o [k \in 1..Len(isects) |-> isects[k].value]
        scaled == scaleValues(IF yMultiplier = <<>> THEN 1 ELSE yMultiplier[1], rawValues)
        stride == Len(allSeries[1].datapoints)
        offset == n * stride
    IN  [seriesMap |->
             ByKey(allSeries, [i \in 1..n |-> SeriesSlice(scaled, i - 1, stride)]),
         seriesStatsMap |->
             ByKey(allSeries, [i \in 1..n |->
                 [start |-> scaled[(i - 1) * 4 + offset + 1],
                  end |-> scaled[(i - 1) * 4 + offset + 2],
                  max |-> scaled[(i - 1) * 4 + offset + 3],
                  min |-> scaled[(i - 1) * 4 + offset + 4]]]),
         intersectionValues |-> Slice(scaled, offset + n * 4, Len(scaled))]

(***************************************************************************)
(* Specification of a plane model: the model is constructed of series of   *)
(* one length over the records x = 0, 1, ..., then getChordAt is called or *)
(* generateValues is called on its series.                                 *)
(***************************************************************************)
\* The raw x-values of the records, as numbers or as labels.
ModelXRaws == <<"0", "1", "2">>
ModelYRaws == {"5", "5.0", "10"}
ModelFacetChoices ==
    {<<[key |-> "x", datatype |-> xtype], [key |-> "y", datatype |-> "number"]>> :
        xtype \in {"number", "string"}}

\* The series lists of the models: keyed series of one length with the
\* same facets.
ModelInputs ==
    UNION {UNION {{[i \in 1..n |->
                      NewSeries(KeyOrder[i],
                                [k \in 1..len |-> [x |-> ModelXRaws[k], y |-> ys[i][k]]],
                                sigs)] :
                     ys \in [1..n -> [1..len -> ModelYRaws]], sigs \in ModelFacetChoices} :
                 len \in 1..MaxModelLen} : n \in 1..MaxModelSeries}

\* The boxes a caller hands to getChordAt.
ChordValues ==
    {NumberBox(raw) : raw \in {"0", "1", "5", "5.0", "10"}}
        \cup {StringBox(raw) : raw \in {"0", "1", "5"}}

InitModel ==
    /\ kind = "plane"
    /\ seriesArray \in ModelInputs
    /\ oracle = NoOracle
    /\ groups = <<>>
    /\ merged = <<>>
    /\ pc = "ok"
    /\ err = NoErr
    /\ ret = NoRet
    /\ segArgs = NoSegArgs
    /\ segRes = NullV
    /\ intersections = <<>>
    /\ overlaps = <<>>
    /\ parallels = <<>>
    /\ pairs = <<>>
    /\ trackingGroups = <<>>
    /\ trackingZones = <<>>
    /\ clusters = <<>>
    /\ clusterOutliers = <<>>

\* model.getChordAt(facetKey, value)
CallGetChordAt ==
    /\ pc = "ok"
    /\ \E facetKey \in {"x", "y", "z"}, value \in ChordValues :
          ret' = [op |-> "getChordAt", facetKey |-> facetKey, value |-> value,
                  val |-> getChordAt(seriesArray, facetKey, value)]
    /\ UNCHANGED object

\* The intersections and the multiplier handed to generateValues.
IntersectionLists ==
    UNION {[1..n -> {[value |-> v] : v \in {6, 7}}] : n \in 0..2}
Multipliers == {<<>>, <<3>>}

\* generateValues(model.series, intersections, yMultiplier)
CallGenerateValues ==
    /\ pc = "ok"
    /\ \E isects \in IntersectionLists, yMultiplier \in Multipliers :
          ret' = [op |-> "generateValues", intersections |-> isects,
                  yMultiplier |-> yMultiplier,
                  val |-> generateValues(seriesArray, isects, yMultiplier)]
    /\ UNCHANGED object

NextModel == CallGetChordAt \/ CallGenerateValues

SpecModel == InitModel /\ [][NextModel]_vars

(***************************************************************************)
(* Properties of the pair summary (specification Spec)                     *)
(***************************************************************************)
\* A constructed basic analyzer over one pair of lines.
PairAnalyzed == kind = "basic" /\ Len(seriesArray) = 2 /\ pc = "ok"

\* The labels of the records of a line, "0", "1", ...
RecordLabels(line) == [k \in 1..Len(line.points) |-> NumToString(line.points[k].x)]

\* A fraction [n, d] with d > 0 has the value v.
IsValue(frac, v) == frac.d > 0 /\ frac.n = v * frac.d

\* C1: for two lines with identical points at every record the analysis
\* yields no Intersection, exactly one Overlap whose datapoints span every
\* record, no Parallel, and a Pair with dominant = null and
\* dominantPercent = 50.
C1_IdenticalLines ==
    (PairAnalyzed /\ seriesArray[1].points = seriesArray[2].points) =>
        /\ intersections = <<>>
        /\ Len(overlaps) = 1
        /\ [k \in 1..Len(overlaps[1].datapoints) |-> overlaps[1].datapoints[k][1]]
               = RecordLabels(seriesArray[1])
        /\ parallels = <<>>
        /\ Len(pairs) = 1
        /\ pairs[1].dominant = Null
        /\ IsValue(pairs[1].dominantPercent, 50)

\* The sum of two fractions.
FracAdd(p, q) == [n |-> p.n * q.d + q.n * p.d, d |-> p.d * q.d]

\* The part of the segment from record k to record k + 1 (of width 1) on
\* which line a is strictly above line b, as a fraction.
AboveOnSegment(a, b, k) ==
    LET d0 == a.points[k].y - b.points[k].y
        d1 == a.points[k + 1].y - b.points[k + 1].y
    IN  IF d0 >= 0 /\ d1 >= 0 THEN [n |-> IF d0 + d1 > 0 THEN 1 ELSE 0, d |-> 1]
        ELSE IF d0 > 0 THEN [n |-> d0, d |-> d0 - d1]
        ELSE IF d1 > 0 THEN [n |-> d1, d |-> d1 - d0]
        ELSE [n |-> 0, d |-> 1]

\* The width of the domain on which line a is strictly above line b.
RECURSIVE AboveWidth(_, _, _)
AboveWidth(a, b, k) ==
    IF k >= Len(a.points) THEN [n |-> 0, d |-> 1]
    ELSE FracAdd(AboveOnSegment(a, b, k), AboveWidth(a, b, k + 1))

\* Line a is strictly above line b on more than half of the domain.
AboveMoreThanHalf(a, b) ==
    LET w == AboveWidth(a, b, 1) IN 2 * w.n > (Len(a.points) - 1) * w.d

\* C2: whenever the Pair's dominant is non-null, the named series is strictly
\* above the other on more than half of the domain width, also when
\* some segment pairs are Overlap; and dominant is null when neither series
\* is above the other on more than half of the domain.
C2_DominantIsAbove ==
    PairAnalyzed =>
        LET a == seriesArray[1]
            b == seriesArray[2]
        IN  /\ pairs[1].dominant = a.key => AboveMoreThanHalf(a, b)
            /\ pairs[1].dominant = b.key => AboveMoreThanHalf(b, a)
            /\ (~AboveMoreThanHalf(a, b) /\ ~AboveMoreThanHalf(b, a))
                   => pairs[1].dominant = Null

\* C3: for A constant at 10 and B constant at 5 over x = 0..3 the analysis
\* yields no Intersection, no Overlap, exactly one Parallel of kind 'perfect'
\* whose records span the domain, dominant = A and dominantPercent = 100 on
\* the 0-100 scale of parallelPercent.
C3Input == <<LineOf("A", <<10, 10, 10, 10>>), LineOf("B", <<5, 5, 5, 5>>)>>

C3_ConstantLines ==
    (PairAnalyzed /\ seriesArray = C3Input) =>
        /\ intersections = <<>>
        /\ overlaps = <<>>
        /\ Len(parallels) = 1
        /\ parallels[1].kind = "perfect"
        /\ [k \in 1..Len(parallels[1].records) |-> parallels[1].records[k].label]
               = RecordLabels(seriesArray[1])
        /\ pairs[1].dominant = "A"
        /\ IsValue(pairs[1].parallelPercent, 100)
        /\ IsValue(pairs[1].dominantPercent, 100)

\* The 'top' series of an angle object of the pair, null when there is none.
TopOf(angle) ==
    IF angle = NullV THEN Null
    ELSE angle[seriesArray[1].key][seriesArray[2].key].top

\* Two fractions have one value.
SameFrac(p, q) == p.n * q.d = q.n * p.d

\* The analysis of the pair with the two lines in the other order.
Swapped == BasicConstructor(<<seriesArray[2], seriesArray[1]>>, screenCoordSysSize)

\* C4: analysing two equal-length keyed lines in the order (A,B) and in the
\* order (B,A) reports the same series key as dominant (or null in both),
\* the same dominantPercent, the same numbers of intersections, overlaps and
\* parallels, and the same 'top' and 'topToBottom' series keys.
C4_Symmetry ==
    PairAnalyzed =>
        \E sw \in {Swapped} :
            /\ sw.pairs[1].dominant = pairs[1].dominant
            /\ SameFrac(sw.pairs[1].dominantPercent, pairs[1].dominantPercent)
            /\ Len(sw.intersections) = Len(intersections)
            /\ Len(sw.overlaps) = Len(overlaps)
            /\ Len(sw.parallels) = Len(parallels)
            /\ \A k \in 1..Len(intersections) :
                   /\ sw.intersections[k].transversality = intersections[k].transversality
                   /\ TopOf(sw.intersections[k].incomingAngle)
                          = TopOf(intersections[k].incomingAngle)
                   /\ TopOf(sw.intersections[k].outgoingAngle)
                          = TopOf(intersections[k].outgoingAngle)
            /\ \A k \in 1..Len(overlaps) :
                   /\ TopOf(sw.overlaps[k].incomingAngle) = TopOf(overlaps[k].incomingAngle)
                   /\ TopOf(sw.overlaps[k].outgoingAngle) = TopOf(overlaps[k].outgoingAngle)

(***************************************************************************)
(* Properties of the intersections scan and of construction (Spec)         *)
(***************************************************************************)
C5Input == <<LineOf("A", <<0, 10>>), LineOf("B", <<10, 0>>)>>

\* What the kernel reports of the only segment pair of C5Input.
C5SegPair ==
    checkIntersection(segAt(C5Input[1], 0), segAt(C5Input[2], 0),
                      YScaleOf(C5Input, screenCoordSysSize), 0)

\* C5: for A = [(0,0),(1,10)] and B = [(0,10),(1,0)] the analysis reports
\* exactly one Intersection, between records (record.label = null,
\* record.before = "0", record.after = "1", atRecord false), with the value
\* y = 5 at the crossing x = 0.5.
C5_InteriorCrossing ==
    (seriesArray = C5Input /\ pc # "new") =>
        /\ pc = "ok"
        /\ Len(intersections) = 1
        /\ intersections[1].record = [label |-> Null, before |-> "0", after |-> "1"]
        /\ intersections[1].value = 5 * Milli
        /\ C5SegPair.relationship = "Intersection"
        /\ C5SegPair.intersection.atRecord = FALSE
        /\ 2 * C5SegPair.intersection.crosspoint.x = Milli
        /\ C5SegPair.intersection.crosspoint.y = 5 * Milli

C5_Witness ==
    /\ seriesArray = C5Input
    /\ pc = "ok"
    /\ Len(intersections) = 1
    /\ ret.op = "getIntersections"
    /\ ret.val = intersections

\* The ways a series list can break the preconditions of construction.
SomeUnequalLength(arr) ==
    \E i, j \in 1..Len(arr) : Len(arr[i].points) # Len(arr[j].points)
SomeWithoutKey(arr) == \E i \in 1..Len(arr) : arr[i].key = Undefined
SomeSegmentNotForward(arr) ==
    \E i \in 1..Len(arr) : \E k \in 1..(Len(arr[i].points) - 1) :
        arr[i].points[k + 1].x <= arr[i].points[k].x

\* No analyzer object: no field was assigned and no accessor returned.
NoObject ==
    /\ intersections = <<>> /\ overlaps = <<>> /\ parallels = <<>> /\ pairs = <<>>
    /\ trackingGroups = <<>> /\ trackingZones = <<>>
    /\ clusters = <<>> /\ clusterOutliers = <<>>
    /\ ret = NoRet

NotForward(seg) == seg.end.x <= seg.start.x

C8_SingleSeriesEmpty ==
    (Len(seriesArray) = 1 /\ pc # "new") =>
        /\ pc = "ok"
        /\ err = NoErr
        /\ ret.val = <<>>

C8_Witness ==
    /\ Len(seriesArray) = 1
    /\ kind = "ai"
    /\ pc = "ok"
    /\ clusterOutliers # <<>>
    /\ ret.op = "getClusterOutliers"
    /\ ret.val = <<>>

\* C9: for the enhanced analyzer getTrackingGroups, getTrackingZones,
\* getClusters and getClusterOutliers return exactly the tracking groups,
\* tracking zones, clusters and noise keys stored at construction.
C9_AccessorsReturnStored ==
    (kind = "ai" /\ pc = "ok") =>
        /\ ret.op = "getTrackingGroups" => ret.val = trackingGroups
        /\ ret.op = "getTrackingZones" => ret.val = trackingZones
        /\ ret.op = "getClusters" => ret.val = clusters
        /\ ret.op = "getClusterOutliers" => ret.val = clusterOutliers

(***************************************************************************)
(* Properties of the merge pass (specification SpecMerge)                  *)
(***************************************************************************)
\* The stretch from x to x + 1 lies in the interval of a group of the
\* argument that has the key set keys.
Covered(keys, x) ==
    \E g \in 1..Len(groups) :
        /\ setEq(groups[g].keys, keys)
        /\ groups[g].interval.start <= x
        /\ x + 1 <= groups[g].interval.end

\* C10: mergeGroups replaces two groups by one spanning the union interval
\* only if their key sets are equal and their intervals overlap or abut;
\* groups with equal key sets separated by a gap are never merged, whatever
\* their order in the list.  So no group of the result spans a stretch that
\* no group of the argument with its key set spans.
C10_NoMergeAcrossGap ==
    pc = "ok" =>
        \A m \in 1..Len(merged) :
            \A x \in merged[m].interval.start..(merged[m].interval.end - 1) :
                Covered(merged[m].keys, x)


(***************************************************************************)
(* Properties of normalization (specifications SpecNorm, SpecNormFair)     *)
(***************************************************************************)
\* The set of (interval, key set) groups of a list.
GroupSet(gs) == {gs[k] : k \in 1..Len(gs)}

\* The first call has returned and the second call has been made.
NormalizedTwice == pc = "ok" /\ ret # NoRet

\* The step-by-step call returns what normalizeGroups returns, and for a
\* chart the caller holds what getGroups returns.
NormStepsAgree ==
    pc = "ok" =>
        /\ merged = normalizeGroups(groups)
        /\ seriesArray # <<>> => Held = getGroups(seriesArray, oracle.trajectories)

\* C11: normalizeGroups(normalizeGroups(G)) is the same set of groups as
\* normalizeGroups(G), for every list G and also for the list getGroups
\* returns (the normalized list, reversed).
C11_NormalizeIdempotent ==
    NormalizedTwice => GroupSet(ret.val) = GroupSet(merged)

\* The lists that hold the groups of gs in another order.
Reorderings(gs) ==
    {[k \in 1..Len(gs) |-> gs[perm[k]]] : perm \in Permutations(1..Len(gs))}

\* C12: for every permutation of the argument, normalizeGroups returns the
\* same set of groups.
C12_OrderIndependent ==
    pc = "ok" =>
        \A other \in Reorderings(groups) :
            GroupSet(normalizeGroups(other)) = GroupSet(merged)

\* C13: every call of normalizeGroups returns.
C13_NormalizeTerminates == <>(pc = "ok")

C13_Witness ==
    /\ pc = "ok"
    /\ Len(groups) = MaxNormGroups
    /\ Len(merged) < Len(groups)

\* The interval of gi encloses or equals that of gj.
Encloses(gi, gj) ==
    gi.interval.start <= gj.interval.start /\ gi.interval.end >= gj.interval.end

\* Every group of the list before has a group of the list after that holds
\* its keys on an interval that encloses its own.
KeysKept(before, after) ==
    \A k \in 1..Len(before) : \E m \in 1..Len(after) :
        before[k].keys \subseteq after[m].keys /\ Encloses(after[m], before[k])

\* No suppletion is left to do in the list.
Suppleted(gs) ==
    \A i \in 1..Len(gs) : \A j \in 1..Len(gs) :
        (i # j /\ Encloses(gs[i], gs[j]) /\ gs[i].keys \cap gs[j].keys # {})
            => gs[i].keys \subseteq gs[j].keys

\* C14: in the list normalizeGroups returns, a group whose interval
\* encloses or equals that of another and shares a key with it has all its
\* keys in the other; and no step of normalization removes a key from a
\* group.
C14_SuppletedAndKeysKept ==
    [][ (pc' # pc \/ merged' # merged) =>
            /\ KeysKept(IF pc = "new" THEN groups ELSE merged, merged')
            /\ pc' = "ok" => Suppleted(merged') ]_vars

C14_Witness ==
    /\ pc = "ok"
    /\ \E i \in 1..Len(merged) : \E j \in 1..Len(merged) :
          /\ i # j
          /\ Encloses(merged[i], merged[j])
          /\ merged[j].keys = {"A", "B", "C"}
          /\ merged[i].keys # merged[j].keys


(***************************************************************************)
(* Properties of the zone partitioner (specification SpecZones)            *)
(***************************************************************************)
\* getZones has returned the list of zones ret.val.
ZonesReturned == pc = "ok" /\ ret.op = "getZones"

FirstX == seriesArray[1].points[1].x
LastX == seriesArray[1].points[Len(seriesArray[1].points)].x

\* C15: the zones getZones returns cover the chart domain from the first to
\* the last x-value with no gaps: there is a zone for every interval of the
\* partition, one enclosed by no tracking group included (with an empty
\* group list).
C15_ZonesCoverDomain ==
    ZonesReturned =>
        LET zs == ret.val IN
        /\ Len(zs) >= 1
        /\ zs[1].interval.start = FirstX
        /\ zs[Len(zs)].interval.end = LastX
        /\ \A k \in 1..(Len(zs) - 1) : zs[k].interval.end = zs[k + 1].interval.start
        /\ \A k \in 1..Len(zs) :
              (\A g \in 1..Len(groups) : ~Encloses(groups[g], zs[k]))
                  => zs[k].trackingGroups = <<>>

\* A boundary of a tracking group of the argument.
GroupBoundaries ==
    {groups[g].interval.start : g \in 1..Len(groups)}
        \cup {groups[g].interval.end : g \in 1..Len(groups)}

\* C16: the zone intervals are pairwise non-overlapping, each has
\* start < end, they are listed in ascending x order, and no boundary of a
\* tracking group lies strictly inside a zone.
C16_ZonesArePartition ==
    ZonesReturned =>
        LET zs == ret.val IN
        /\ \A k \in 1..Len(zs) : zs[k].interval.start < zs[k].interval.end
        /\ \A k \in 1..(Len(zs) - 1) : zs[k].interval.end <= zs[k + 1].interval.start
        /\ \A k \in 1..Len(zs) : \A b \in GroupBoundaries :
              ~(zs[k].interval.start < b /\ b < zs[k].interval.end)


(***************************************************************************)
(* Properties of the cluster engine (specification SpecClusters)           *)
(***************************************************************************)
\* The constructor has returned the object ret.val.
Clustered == pc = "ok" /\ ret.op = "SpatialClusters"

\* The keys of the series of a list.
KeysIn(lines) == {lines[k].key : k \in 1..Len(lines)}

\* How often a key occurs in a list of series.
Occurrences(key, lines) == Cardinality({k \in 1..Len(lines) : lines[k].key = key})

\* How often a key occurs in the clusters and the noise list of a result.
PlacesOf(key, sc) ==
    SumSeq([c \in 1..Len(sc.clusters) |-> Occurrences(key, sc.clusters[c])])
        + Occurrences(key, sc.noise)

\* C17: every input series appears in exactly one place, one cluster or the
\* noise list, and never twice; every cluster is non-empty and no cluster
\* index is left without members.
C17_ClusterPartition ==
    Clustered =>
        /\ \A i \in 1..Len(seriesArray) : PlacesOf(seriesArray[i].key, ret.val) = 1
        /\ \A c \in 1..Len(ret.val.clusters) : Len(ret.val.clusters[c]) >= 1

C17_Witness ==
    /\ Clustered
    /\ Len(ret.val.clusters) >= 1
    /\ Len(ret.val.noise) >= 1
    /\ Len(seriesArray) = MaxClusterSeries

\* The set that holds the relation of the series whose means differ by at
\* most eps, the radius the constructor chose.
NearPairs ==
    {{p \in (1..Len(seriesArray)) \X (1..Len(seriesArray)) :
         NumLeq(Num(Abs(ScaledMean(seriesArray[p[1]]) - ScaledMean(seriesArray[p[2]]))), eps)}
        : eps \in {ClusterEps(seriesArray, oracle.splitIdx)}}

\* The series linked to one of set by a chain of means in which consecutive
\* means are a pair of near.
RECURSIVE Linked(_, _)
Linked(set, near) ==
    LET next == set \cup {j \in 1..Len(seriesArray) : \E i \in set : <<i, j>> \in near}
    IN  IF next = set THEN set ELSE Linked(next, near)

\* The series i and j are in one cluster of the result.
SameCluster(i, j) ==
    \E c \in 1..Len(ret.val.clusters) :
        {seriesArray[i].key, seriesArray[j].key} \subseteq KeysIn(ret.val.clusters[c])

\* C18: with minPts = 2 the clustering is that of DBSCAN on the means: two
\* series are in one cluster exactly when a chain links their means, a
\* series is noise exactly when the mean of no other series lies within eps
\* of its own, and every cluster has at least two series; series of equal
\* means included.
C18_ReferenceDbscan ==
    Clustered =>
        \A near \in NearPairs :
            /\ \A i \in 1..Len(seriesArray) : \A j \in 1..Len(seriesArray) :
                  i # j => (SameCluster(i, j) <=> j \in Linked({i}, near))
            /\ \A i \in 1..Len(seriesArray) :
                  seriesArray[i].key \in KeysIn(ret.val.noise)
                      <=> ~\E j \in 1..Len(seriesArray) : j # i /\ <<i, j>> \in near
            /\ \A c \in 1..Len(ret.val.clusters) : Len(ret.val.clusters[c]) >= 2

\* A cluster of three series that only a chain holds together, and a
\* cluster of two series of one mean.
C18_Witness ==
    /\ Clustered
    /\ \E near \in NearPairs :
          \E i \in 1..Len(seriesArray) : \E j \in 1..Len(seriesArray) :
              i # j /\ SameCluster(i, j) /\ <<i, j>> \notin near
    /\ \E i \in 1..Len(seriesArray) : \E j \in 1..Len(seriesArray) :
          i # j /\ SameCluster(i, j) /\ ScaledMean(seriesArray[i]) = ScaledMean(seriesArray[j])

\* The gap between the two groups of the five-series chart, 50 - 1.2, in
\* the unit of the means.
FiveGap == (FiveMeans[4] - FiveMeans[3]) * MeanUnit * 2

\* The result the five-series chart is to have: the three low series and
\* the two high series, no noise, and a radius below the gap.
FiveSeriesResult ==
    /\ Len(ret.val.clusters) = 2
    /\ {KeysIn(ret.val.clusters[1]), KeysIn(ret.val.clusters[2])}
           = {{"A", "B", "C"}, {"D", "E"}}
    /\ Len(ret.val.clusters[1]) + Len(ret.val.clusters[2]) = 5
    /\ ret.val.noise = <<>>
    /\ ~ClusterEps(seriesArray, oracle.splitIdx).nan
    /\ ClusterEps(seriesArray, oracle.splitIdx).v < FiveGap

\* C19, as stated: for five series whose means are 1, 1.1, 1.2, 50 and
\* 50.1 the engine returns the two clusters and no noise, with a radius
\* below the gap between the groups.
C19_AsStated ==
    (Clustered /\ seriesArray \in FiveSeriesCharts) => FiveSeriesResult

\* The y-range of a chart (in tenths for the five-series chart).
YRangeOf(arr) ==
    MaxOfSeq([k \in 1..Len(arr) |-> yBounds(arr[k]).end])
        - MinOfSeq([k \in 1..Len(arr) |-> yBounds(arr[k]).start])

\* C19, amended: the result is that one when a tenth of the y-range of the
\* chart is below the gap between the groups, as it is for flat series.
C19_FiveSeriesOfNarrowRange ==
    (Clustered /\ seriesArray \in FiveSeriesCharts
         /\ YRangeOf(seriesArray) < 10 * (FiveMeans[4] - FiveMeans[3]))
        => FiveSeriesResult

C19_Witness ==
    /\ Clustered
    /\ seriesArray = FiveSeriesChart(0)
    /\ Len(ret.val.clusters) = 2
    /\ oracle.splitIdx = 4


(***************************************************************************)
(* Properties of the tracking pipeline (specification SpecTrack)           *)
(***************************************************************************)
\* The whole domain of the chart.
FullInterval == [start |-> FirstX, end |-> LastX]

\* The chart has exactly two series, and their only relative trajectory is
\* one tracking interval over the whole domain of closeness 0.90 or more.
TwoSeriesTrackingThroughout ==
    /\ Len(seriesArray) = 2
    /\ Len(oracle.trajectories) = 1
    /\ Len(oracle.trajectories[1]) = 1
    /\ oracle.trajectories[1][1].type = "tracking"
    /\ oracle.trajectories[1][1].interval = FullInterval
    /\ 10 * oracle.trajectories[1][1].degree.n >= 9 * oracle.trajectories[1][1].degree.d

\* C20: for two series that track each other over the whole domain with a
\* closeness of at least 0.90, getGroups returns exactly one group, over
\* the full interval, of both keys and without outliers, and getZones
\* returns exactly one zone, of that interval, which holds that one group.
C20_OneGroupOneZone ==
    (TwoSeriesTrackingThroughout /\ pc \in {"groups", "ok"}) =>
        /\ groups = <<[keys |-> {seriesArray[1].key, seriesArray[2].key},
                       interval |-> FullInterval]>>
        /\ outliers(groups[1], seriesArray) = <<>>
        /\ pc = "ok" =>
              ret.val = <<[trackingGroups |-> groups, interval |-> FullInterval]>>

C20_Witness ==
    /\ TwoSeriesTrackingThroughout
    /\ pc = "ok"
    /\ ret.op = "getZones"
    /\ Len(ret.val) = 1
    /\ LastX >= 10
    /\ 10 * oracle.trajectories[1][1].degree.n = 9 * oracle.trajectories[1][1].degree.d

(***************************************************************************)
(* Properties of the three scans of a pair (specification Spec)            *)
(***************************************************************************)
\* What the kernel reports of the segment pairs of the analyzed pair.
PairProps ==
    LineIntersectionDetection(seriesArray[1], seriesArray[2],
                              YScaleOf(seriesArray, screenCoordSysSize)).allSegPairProps

\* The maximal runs <<a, b>> of consecutive segment pairs (1-based, from
\* a to b) of one class among classes, from segment pair k on, in order.
RECURSIVE RunsFrom(_, _, _)
RunsFrom(props, classes, k) ==
    IF k > Len(props) THEN <<>>
    ELSE IF props[k].relationship \notin classes THEN RunsFrom(props, classes, k + 1)
    ELSE LET b == CHOOSE b \in k..Len(props) :
                      /\ \A m \in k..b : props[m].relationship \in classes
                      /\ b = Len(props) \/ props[b + 1].relationship \notin classes
         IN  <<<<k, b>>>> \o RunsFrom(props, classes, b + 1)

\* C21: the Overlap records of a pair are the maximal runs of consecutive
\* segment pairs classified Overlap, one record per run and in order: the
\* datapoints of a record are the records of its run (k segments give k + 1
\* datapoints), both lines have the recorded y at each of them,
\* incomingAngle is null exactly when the run starts at the first record
\* and outgoingAngle is null exactly when it ends at the last record.
C21_OverlapsAreMaximalRuns ==
    PairAnalyzed =>
        \A runs \in {RunsFrom(PairProps, {"Overlap"}, 1)} :
            /\ Len(overlaps) = Len(runs)
            /\ \A k \in 1..Len(runs) :
                  LET a == runs[k][1]
                      b == runs[k][2]
                  IN  /\ overlaps[k].datapoints
                             = [m \in 1..(b - a + 2) |->
                                   <<NumToString(seriesArray[1].points[a + m - 1].x),
                                     seriesArray[1].points[a + m - 1].y>>]
                      /\ \A m \in a..(b + 1) :
                             seriesArray[2].points[m].y = seriesArray[1].points[m].y
                      /\ overlaps[k].incomingAngle = NullV <=> a = 1
                      /\ overlaps[k].outgoingAngle = NullV
                             <=> b = Len(seriesArray[1].points) - 1

\* Two runs, the first from the first record and the second to the last.
C21_Witness ==
    /\ PairAnalyzed
    /\ Len(overlaps) = 2
    /\ overlaps[1].incomingAngle = NullV
    /\ overlaps[1].outgoingAngle # NullV
    /\ overlaps[2].incomingAngle # NullV
    /\ overlaps[2].outgoingAngle = NullV

\* The two lines have one y at record k (1-based).
Meets(k) == seriesArray[1].points[k].y = seriesArray[2].points[k].y

\* The lines meet at record k and at no record next to it: a meeting that
\* is no end of an overlap.
MeetsAlone(k) ==
    /\ Meets(k)
    /\ k > 1 => ~Meets(k - 1)
    /\ k < Len(seriesArray[1].points) => ~Meets(k + 1)

\* The lines cross between the records k and k + 1.
CrossesAfter(k) ==
    (seriesArray[1].points[k].y - seriesArray[2].points[k].y)
        * (seriesArray[1].points[k + 1].y - seriesArray[2].points[k + 1].y) < 0

\* The record fields of the meetings without overlap from record k on, in
\* the order of x.
RECURSIVE MeetingsFrom(_)
MeetingsFrom(k) ==
    IF k > Len(seriesArray[1].points) THEN <<>>
    ELSE (IF MeetsAlone(k)
          THEN <<[label |-> NumToString(seriesArray[1].points[k].x),
                  before |-> Null, after |-> Null]>>
          ELSE <<>>)
         \o (IF k < Len(seriesArray[1].points) /\ CrossesAfter(k)
             THEN <<[label |-> Null,
                     before |-> NumToString(seriesArray[1].points[k].x),
                     after |-> NumToString(seriesArray[1].points[k + 1].x)]>>
             ELSE <<>>)
         \o MeetingsFrom(k + 1)

\* The record (1-based) an Intersection at a record lies on.
RecordOf(isect) ==
    CHOOSE k \in 1..Len(seriesArray[1].points) :
        NumToString(seriesArray[1].points[k].x) = isect.record.label

\* The angle object the scan builds of the segment pair props for one side.
AngleOfSide(props, side) ==
    generateAngleMetadata(
        [top |-> getTop(props.segs, <<seriesArray[1].key, seriesArray[2].key>>, side),
         angle |-> props.intersection.angle,
         slope |-> Obj2(seriesArray[1].key, props.slopes.a,
                        seriesArray[2].key, props.slopes.b)],
        <<seriesArray[1].key, seriesArray[2].key>>)

\* C22: the intersections scan reports every point where the lines meet
\* without overlapping exactly once and in order: a meeting at an interior
\* record gives one Intersection, with the incoming angle of the segment
\* pair that ends there and the outgoing angle of the one that starts
\* there; a meeting at a record that starts or ends an overlap gives none;
\* and no Intersection comes from a segment pair classified Overlap.
C22_MeetingsReportedOnce ==
    PairAnalyzed =>
        \A props \in {PairProps} :
            /\ [k \in 1..Len(intersections) |-> intersections[k].record] = MeetingsFrom(1)
            /\ \A k \in 1..Len(intersections) :
                  intersections[k].record.label # Null =>
                      \A m \in {RecordOf(intersections[k])} :
                          /\ m > 1 => props[m - 1].relationship = "Intersection"
                          /\ m < Len(seriesArray[1].points)
                                => props[m].relationship = "Intersection"
                          /\ (m > 1 /\ m < Len(seriesArray[1].points)) =>
                                /\ intersections[k].incomingAngle
                                       = AngleOfSide(props[m - 1], "start")
                                /\ intersections[k].outgoingAngle
                                       = AngleOfSide(props[m], "end")
            /\ \A k \in 1..Len(intersections) :
                  intersections[k].record.label = Null =>
                      \E m \in 1..Len(props) :
                          /\ NumToString(seriesArray[1].points[m].x)
                                 = intersections[k].record.before
                          /\ props[m].relationship = "Intersection"

\* A pair with an overlap and a meeting at an interior record away from it.
C22_Witness ==
    /\ PairAnalyzed
    /\ Len(overlaps) >= 1
    /\ \E k \in 1..Len(intersections) :
          /\ intersections[k].record.label # Null
          /\ intersections[k].incomingAngle # NullV
          /\ intersections[k].outgoingAngle # NullV
          /\ intersections[k].incomingAngle # intersections[k].outgoingAngle

(***************************************************************************)
(* Properties of the data model (specification SpecModel)                  *)
(***************************************************************************)
\* getChordAt has returned ret.val for ret.facetKey and ret.value.
ChordReturned == pc = "ok" /\ ret.op = "getChordAt"

\* The datapoints returned.
Chord == ret.val.datapoints

\* The datatype of the facet the chord was asked of, if it is one.
ChordFacetDatatype == FacetDatatype(seriesArray[1].facetSignatures, ret.facetKey)

\* The datapoints of the series i whose box of the facet equals the value.
ChordMatches(i) ==
    {k \in 1..Len(seriesArray[i].datapoints) :
        /\ ret.facetKey \in DOMAIN seriesArray[i].datapoints[k].data
        /\ isEqual(seriesArray[i].datapoints[k].data[ret.facetKey], ret.value)}

\* The positions of the series that have such a datapoint, in series order.
ChordSeries == SelectSeq([i \in 1..Len(seriesArray) |-> i], LAMBDA i : ChordMatches(i) # {})

\* The result is null exactly when the facet key is no facet of the model
\* or the value has another datatype than the facet; otherwise it holds one
\* datapoint of every series that has a datapoint whose box of the facet
\* equals the value, in series order, and that datapoint is such a one.
ChordOnePerSeries ==
    IF ChordFacetDatatype = Undefined \/ ret.value.datatype # ChordFacetDatatype
    THEN ret.val.null
    ELSE /\ ~ret.val.null
         /\ Len(Chord) = Len(ChordSeries)
         /\ \A j \in 1..Len(Chord) :
               /\ Chord[j].seriesKey = seriesArray[ChordSeries[j]].key
               /\ Chord[j].datapointIndex + 1 \in ChordMatches(ChordSeries[j])
               /\ Chord[j]
                      = seriesArray[ChordSeries[j]].datapoints[Chord[j].datapointIndex + 1]

\* C23, as stated: getChordAt returns null for an unknown facet key or a
\* value of another datatype than the facet, and otherwise the datapoints,
\* at most one per series in series order, whose box of the facet equals
\* the value; for the box of a datapoint of some series the result is
\* non-empty and holds that datapoint.
C23_AsStated ==
    ChordReturned =>
        /\ ChordOnePerSeries
        /\ \A i \in 1..Len(seriesArray) : \A k \in 1..Len(seriesArray[i].datapoints) :
              (/\ ChordFacetDatatype # Undefined
               /\ ret.value = seriesArray[i].datapoints[k].data[ret.facetKey])
                  => \E j \in 1..Len(Chord) : Chord[j] = seriesArray[i].datapoints[k]

\* C23, amended: as above, but for the box of a datapoint of some series
\* the result is non-empty and holds the first datapoint of that series
\* whose box of the facet equals the value, which is that datapoint when no
\* earlier datapoint of its series has an equal box.
C23_ChordOfFirstMatches ==
    ChordReturned =>
        /\ ChordOnePerSeries
        /\ \A i \in 1..Len(seriesArray) : \A k \in 1..Len(seriesArray[i].datapoints) :
              (/\ ChordFacetDatatype # Undefined
               /\ ret.value = seriesArray[i].datapoints[k].data[ret.facetKey])
                  => \E j \in 1..Len(Chord) :
                        /\ Chord[j].seriesKey = seriesArray[i].key
                        /\ \A m \in ChordMatches(i) : Chord[j].datapointIndex + 1 <= m
                        /\ (\A m \in ChordMatches(i) : m >= k)
                               => Chord[j] = seriesArray[i].datapoints[k]

\* A chord of two series through the box of the second datapoint of one of
\* them.
C23_Witness ==
    /\ ChordReturned
    /\ ~ret.val.null
    /\ Len(Chord) = 2
    /\ Len(seriesArray[1].datapoints) >= 2
    /\ ret.value = seriesArray[1].datapoints[2].data[ret.facetKey]
    /\ Chord[1] = seriesArray[1].datapoints[2]

(***************************************************************************)
(* Properties of the classification of a segment pair (specification       *)
(* SpecSeg)                                                                *)
(***************************************************************************)
\* checkIntersection has returned segRes and found no intersection.
NoIntersectionFound ==
    /\ pc = "ok"
    /\ ret.op = "checkIntersection"
    /\ segRes.intersection = NoIntersection

\* The two segments run between the same two records, as the segments of
\* the two lines of a pair do.
SameRecords ==
    /\ segArgs.seg1.start.x = segArgs.seg2.start.x
    /\ segArgs.seg1.end.x = segArgs.seg2.end.x

\* C24: a segment pair of which no intersection was found, whether its
\* y-ranges are apart or it went through the cross-product case, has the
\* relationship the comparison of the two slope angles gives: Parallel for
\* equal angles, FunctionallyParallel for a difference below the threshold
\* of five degrees, Disjoint otherwise.
C24_NoIntersectionIsSlopeComparison ==
    (NoIntersectionFound /\ SameRecords) =>
        segRes.relationship = getParallelApproximation(segRes.slopes.a, segRes.slopes.b)

\* C25: the Parallel records of a pair are the maximal runs of consecutive
\* segment pairs classified Parallel or FunctionallyParallel, in order;
\* incomingDirection is null exactly when the run starts at the first
\* segment and is otherwise the direction of the gaps of the segment pair
\* immediately before the run; outgoingDirection is null exactly when the
\* last segment of the run is the last segment of the domain and is
\* otherwise the direction of the gaps of the segment pair immediately
\* after the run.
C25_ParallelDirections ==
    PairAnalyzed =>
        \A props \in {PairProps} :
        \A runs \in {RunsFrom(props, {"Parallel", "FunctionallyParallel"}, 1)} :
            /\ Len(parallels) = Len(runs)
            /\ \A k \in 1..Len(runs) :
                  LET a == runs[k][1]
                      b == runs[k][2]
                  IN  /\ parallels[k].incomingDirection = Null <=> a = 1
                      /\ a > 1 => parallels[k].incomingDirection
                                      = determineDirection(props[a - 1], "start")
                      /\ parallels[k].outgoingDirection = Null <=> b = Len(props)
                      /\ b < Len(props) => parallels[k].outgoingDirection
                                               = determineDirection(props[b + 1], "end")

(***************************************************************************)
(* Properties of the grouping of tracking pairs (specification SpecPairs)  *)
(***************************************************************************)
\* createGroupsFromPairs has returned merged for the tracking pairs groups.
PairsGrouped == pc = "ok" /\ ret.op = "createGroupsFromPairs"

\* The key pairs, as sets of two keys, of the tracking pairs over inter.
EdgesOver(inter) ==
    {{groups[k].keyPair[1], groups[k].keyPair[2]} :
        k \in {k \in 1..Len(groups) : intervalEq(groups[k].interval, inter)}}

\* The keys that a chain of key pairs of edges links to a key of set.
RECURSIVE LinkedKeys(_, _)
LinkedKeys(set, edges) ==
    LET next == set \cup UNION {e \in edges : e \cap set # {}}
    IN  IF next = set THEN set ELSE LinkedKeys(next, edges)

\* The connected components of the graph of the tracking pairs over inter.
ComponentsOver(inter) ==
    {LinkedKeys({key}, EdgesOver(inter)) : key \in UNION EdgesOver(inter)}

\* C26: for each interval of the tracking pairs (intervals are one when
\* their start and end values are equal) the candidate groups over it are
\* exactly the connected components of the graph of its tracking pairs,
\* one group per component, whatever the order of the pairs: their key
\* sets are pairwise disjoint, each has at least two keys, and keys linked
\* by a chain of tracking pairs over the interval are in the same group.
C26_GroupsAreComponents ==
    PairsGrouped =>
        /\ \A g \in 1..Len(merged) :
              \E k \in 1..Len(groups) : intervalEq(groups[k].interval, merged[g].interval)
        /\ \A k \in 1..Len(groups) :
              LET inter == groups[k].interval
                  mine == {g \in 1..Len(merged) : intervalEq(merged[g].interval, inter)}
              IN  /\ {merged[g].keys : g \in mine} = ComponentsOver(inter)
                  /\ Cardinality(mine) = Cardinality(ComponentsOver(inter))
                  /\ \A g \in mine : Cardinality(merged[g].keys) >= 2
                  /\ \A g, h \in mine : g # h => merged[g].keys \cap merged[h].keys = {}

\* Two key sets of one interval were merged by a later pair, and another
\* interval has a group of its own.
C26_Witness ==
    /\ PairsGrouped
    /\ Len(groups) = 4
    /\ groups[1].keyPair = <<"A", "B">>
    /\ groups[2].keyPair = <<"C", "D">>
    /\ groups[3].keyPair = <<"B", "C">>
    /\ \A k \in 1..3 : groups[k].interval = [start |-> 0, end |-> 1]
    /\ groups[4].interval = [start |-> 0, end |-> 2]
    /\ Len(merged) = 2
    /\ merged[1].keys = {"A", "B", "C", "D"}

\* Every group of every zone of zones has the interval of its zone and is
\* enclosed by a group of tgs that has its keys among those of the group.
ZoneGroupsWithin(zones, tgs) ==
    \A z \in 1..Len(zones) : \A k \in 1..Len(zones[z].trackingGroups) :
        LET zg == zones[z].trackingGroups[k] IN
        /\ zg.interval = zones[z].interval
        /\ \E g \in 1..Len(tgs) :
              /\ tgs[g].interval.start <= zg.interval.start
              /\ tgs[g].interval.end >= zg.interval.end
              /\ tgs[g].keys \subseteq zg.keys

\* C27: getZones leaves its argument as it was: every group of it has the
\* same keys and the same interval afterwards, also when the normalization
\* within a zone added keys to the groups of the zone or merged them; and
\* every group of a returned zone has the interval of its zone and is
\* enclosed by the group of the argument it was copied from.
C27_GetZonesKeepsInput ==
    [][(pc = "new" /\ pc' = "ok" /\ ret'.op = "getZones")
          => /\ groups' = groups
             /\ ZoneGroupsWithin(ret'.val, groups)]_vars

\* A zone whose normalization added keys to a group copied from the
\* argument and merged it with another.
C27_Witness ==
    /\ pc = "ok"
    /\ ret.op = "getZones"
    /\ \E z \in 1..Len(ret.val) :
          /\ Len(ret.val[z].trackingGroups) = 1
          /\ ret.val[z].trackingGroups[1].keys = {"A", "B", "C"}
          /\ Cardinality({g \in 1..Len(groups) :
                             /\ groups[g].interval.start <= ret.val[z].interval.start
                             /\ groups[g].interval.end >= ret.val[z].interval.end}) >= 2
    /\ \A g \in 1..Len(groups) : Cardinality(groups[g].keys) = 2

\* The key of the line that is higher at record k (1-based) of the pair.
HigherAt(k) ==
    IF seriesArray[1].points[k].y > seriesArray[2].points[k].y
    THEN seriesArray[1].key
    ELSE seriesArray[2].key

\* The record (1-based) before an Intersection between records.
RecordBefore(isect) ==
    CHOOSE k \in 1..Len(seriesArray[1].points) :
        NumToString(seriesArray[1].points[k].x) = isect.record.before

\* C28: an Intersection between two records has an incoming and an
\* outgoing angle that are distinct values: the top of the incoming angle
\* is the line that is higher at the start of the segment, the top of the
\* outgoing angle is the line that is higher at its end, and, the lines
\* crossing, the two tops differ.
C28_CrossingAnglesDiffer ==
    PairAnalyzed =>
        \A k \in 1..Len(intersections) :
            intersections[k].record.label = Null =>
                /\ intersections[k].incomingAngle # intersections[k].outgoingAngle
                /\ TopOf(intersections[k].incomingAngle)
                       = HigherAt(RecordBefore(intersections[k]))
                /\ TopOf(intersections[k].outgoingAngle)
                       = HigherAt(RecordBefore(intersections[k]) + 1)
                /\ TopOf(intersections[k].incomingAngle)
                       # TopOf(intersections[k].outgoingAngle)

\* Two distinct groups of the list gs that have one interval have no key
\* in common.
SameIntervalDisjoint(gs) ==
    \A i, j \in 1..Len(gs) :
        (i # j /\ intervalEq(gs[i].interval, gs[j].interval))
            => gs[i].keys \cap gs[j].keys = {}

\* C29: two distinct groups with one interval of a list normalizeGroups
\* returns have disjoint key sets, and so in every zone getZones returns
\* every key belongs to at most one of the groups of the zone.
C29_ZoneKeysInOneGroup ==
    ZonesReturned =>
        \A z \in 1..Len(ret.val) :
            \A i, j \in 1..Len(ret.val[z].trackingGroups) :
                i # j => ret.val[z].trackingGroups[i].keys
                             \cap ret.val[z].trackingGroups[j].keys = {}

\* The same of the lists normalizeGroups returns for groups with
\* start < end: two distinct groups with one interval have disjoint key
\* sets.  It is an invariant of the specification SpecNorm.
NormalizedSameIntervalDisjoint ==
    pc = "ok" =>
        /\ SameIntervalDisjoint(merged)
        /\ ret.op = "normalizeGroups" => SameIntervalDisjoint(ret.val)

\* generateValues has returned ret.val for the series of the model,
\* ret.intersections and ret.yMultiplier.
ValuesGenerated == pc = "ok" /\ ret.op = "generateValues"

\* The scaled number of a raw value.
ScaledOf(v) ==
    [number |-> v, scale |-> IF ret.yMultiplier = <<>> THEN 1 ELSE ret.yMultiplier[1]]

\* The y-values of the datapoints of the series i, in order.
YsOf(i) ==
    [k \in 1..Len(seriesArray[i].datapoints) |-> seriesArray[i].datapoints[k].data.y.value.n]

\* The set of them.
YSetOf(i) == {YsOf(i)[k] : k \in 1..Len(YsOf(i))}

\* C30: for series of one length L, generateValues maps the key of every
\* series to exactly the L scaled y-values of its own datapoints, in order,
\* and to the scaled first, last, largest and smallest y-value of that
\* series, and returns exactly one scaled value for every intersection, in
\* order.
C30_GeneratedValuesOfOwnSeries ==
    ValuesGenerated =>
        /\ \A i \in 1..Len(seriesArray) :
              /\ ret.val.seriesMap[seriesArray[i].key]
                     = [k \in 1..Len(YsOf(i)) |-> ScaledOf(YsOf(i)[k])]
              /\ ret.val.seriesStatsMap[seriesArray[i].key]
                     = [start |-> ScaledOf(YsOf(i)[1]),
                        end |-> ScaledOf(YsOf(i)[Len(YsOf(i))]),
                        max |-> ScaledOf(CHOOSE v \in YSetOf(i) :
                                             \A w \in YSetOf(i) : v >= w),
                        min |-> ScaledOf(CHOOSE v \in YSetOf(i) :
                                             \A w \in YSetOf(i) : v <= w)]
        /\ ret.val.intersectionValues
               = [k \in 1..Len(ret.intersections) |-> ScaledOf(ret.intersections[k].value)]

=============================================================================
